---- MODULE Spec2Model ----
(***************************************************************************)
(* A model of the CME detection core: CMEDetector (detection/cme_detector) *)
(* with the part of FeatureEngineer it relies on.                          *)
(*                                                                         *)
(* Numbers.  Scores and probabilities are fixed-point with Unit = 1.0, so  *)
(* 0.7 is 7000 and 0.3 is 3000; every value the model draws is a multiple  *)
(* of 10, which makes 0.7*p + 0.3*r exact.  Row indices are numpy's        *)
(* 0-based positions; row i of a table is rows[i + 1].  Timestamps are     *)
(* counted in ticks of half a second.                                      *)
(***************************************************************************)
EXTENDS Integers, Sequences, FiniteSets, TLC

VARIABLES
    thresholds,       \* self.thresholds: the partial map read from the configuration
    is_trained,       \* self.is_trained
    feature_columns,  \* self.feature_columns
    scaler,           \* self.scaler: the StandardScaler object
    models,           \* self.models: name -> estimator object
    train_count,      \* number of train_models calls so far (names each fit)
    disk,             \* the artifact at the model file path
    input,            \* the arguments drawn for the call under study
    call,             \* the last operation called on the Detector
    ret,              \* what that operation returned or raised
    running,          \* the operation that has begun and not yet returned, with
                      \* its position and its local variables
    stored_events,    \* the rows of the cme_events table, in insertion order
    alerts_sent       \* the events send_cme_alert was called for, in order

vars == <<thresholds, is_trained, feature_columns, scaler, models, train_count,
          disk, input, call, ret, running, stored_events, alerts_sent>>

detector == <<is_trained, feature_columns, scaler, models>>

-----------------------------------------------------------------------------
(* Bounds of the model *)

MaxTrain == 2          \* train_models calls in one run
MaxRows == 2           \* rows of a drawn telemetry batch
MaxRuleRows == 2       \* rows of a table given to apply_threshold_rules
MaxEventRows == 2      \* rows of a table given to _create_cme_event
MaxIndex == 10         \* largest row index given to _group_consecutive_detections
MaxGapArg == 3         \* largest explicit max_gap argument
MaxKnownEvents == 2    \* rows of the known-events table given to prepare_training_data
MaxEngineerRows == 3   \* rows of a table given to engineer_features
ScenarioRows == 40     \* rows of the end-to-end batch (its 2 hours at 30-second cadence are 240)
SpikeRows == 20        \* rows of its spike window: 10 minutes at 30-second cadence
MaxRetryAttempts == 3  \* largest configured retry_attempts (3 is the default)

-----------------------------------------------------------------------------
(* Program constants *)

Unit == 10000                      \* the score 1.0
DefaultVelocityThreshold == 500
DefaultFluxThreshold == 1200
DefaultTemperatureThreshold == 200000
DefaultMagneticFieldThreshold == 10
DefaultConfidenceThreshold == 7000 \* 0.7
VelocityWeight == 3000             \* 0.3
FluxWeight == 3000                 \* 0.3
TemperatureWeight == 2000          \* 0.2
MagneticFieldWeight == 2000        \* 0.2
MlWeight == 7                      \* 0.7, in tenths
RuleWeight == 3                    \* 0.3, in tenths
RuleOnlyScore == 8000              \* np.ones(n) * 0.8
DefaultMaxGap == 10
HaloVelocity == 800
HaloFlux == 2000
PartialHaloVelocity == 600
PartialHaloFlux == 1500
HaloWidth == 360
PartialHaloWidthLow == 120
PartialHaloWidthHigh == 359
NonHaloWidthLow == 20
NonHaloWidthHigh == 119
DefaultPeakVelocity == 400         \* peak_data.get('velocity', 400)
DefaultPeakFlux == 1000            \* peak_data.get('proton_flux', 1000)
MaxMagnitude == 10
TicksPerSecond == 2
AlertConfidence == 8000            \* if event['confidence'] > 0.8
WindowMinutes == 30                \* timedelta(minutes=30)

-----------------------------------------------------------------------------
(* Columns *)

\* The telemetry columns engineer_features reads.
RequiredColumns ==
    {"timestamp", "proton_flux", "electron_flux", "alpha_flux",
     "velocity", "temperature", "magnetic_field_magnitude"}

RawColumns == RequiredColumns \cup {"density"}

\* FeatureEngineer.get_feature_importance_columns
get_feature_importance_columns ==
    << "proton_flux", "electron_flux", "alpha_flux",
       "velocity", "temperature", "magnetic_field_magnitude",
       "proton_flux_ma_5", "proton_flux_ma_10", "proton_flux_ma_30",
       "velocity_ma_5", "velocity_ma_10", "velocity_ma_30",
       "proton_flux_grad_1", "proton_flux_grad_5", "velocity_grad_1",
       "proton_flux_std_60", "velocity_std_60",
       "proton_flux_zscore", "velocity_zscore",
       "flux_mahalanobis_distance",
       "proton_electron_ratio_60" >>

Range(s) == {s[i] : i \in 1..Len(s)}

\* The derived columns engineer_features adds that detection reads.
EngineeredColumns ==
    (Range(get_feature_importance_columns) \ RawColumns)
        \cup {"hour", "day_of_year", "solar_cycle_phase", "time_delta"}

FullColumns == RawColumns \cup EngineeredColumns

\* [col for col in columns if col in table.columns]
SelectSeqIn(columns, present) == SelectSeq(columns, LAMBDA c : c \in present)

-----------------------------------------------------------------------------
(* Tables: the columns present and the rows, each row carrying the values  *)
(* detection reads.                                                        *)

Row(ts, v, f, t, m) ==
    [timestamp |-> ts, velocity |-> v, proton_flux |-> f,
     temperature |-> t, magnetic_field_magnitude |-> m]

Table(cols, rows) == [cols |-> cols, rows |-> rows]

EmptyTable == Table({}, <<>>)

\* dict.get(key, default)
Get(d, k, default) == IF k \in DOMAIN d THEN d[k] ELSE default

\* DataFrame.get(column, default) / Series.get(column, default), row by row
Cell(t, row, col, default) == IF col \in t.cols THEN row[col] ELSE default

-----------------------------------------------------------------------------
(* FeatureEngineer.engineer_features, as far as detection depends on it     *)

Raised(e) == [status |-> e, table |-> EmptyTable, unfilled |-> EmptyTable]

\* The insertion that keeps the later timestamp first.
RECURSIVE InsertByTimestampDescending(_, _)
InsertByTimestampDescending(r, s) ==
    IF s = <<>> THEN <<r>>
    ELSE IF r.timestamp > Head(s).timestamp THEN <<r>> \o s
    ELSE <<Head(s)>> \o InsertByTimestampDescending(r, Tail(s))

RECURSIVE InsertByTimestamp(_, _)
InsertByTimestamp(r, s) ==
    IF s = <<>> THEN <<r>>
    ELSE IF r.timestamp < Head(s).timestamp THEN <<r>> \o s
    ELSE <<Head(s)>> \o InsertByTimestamp(r, Tail(s))

\* df.sort_values('timestamp').reset_index(drop=True)
RECURSIVE sort_values(_)
sort_values(rows) ==
    IF rows = <<>> THEN <<>>
    ELSE InsertByTimestamp(rows[Len(rows)], sort_values(SubSeq(rows, 1, Len(rows) - 1)))

\* A missing cell (NaN).  No value the model draws, and no difference of two
\* of them, comes near it.
NaN == -1000000

\* Series.diff(periods=1): missing in the first row and wherever one of the
\* two operands is missing
diff(values) ==
    [i \in 1..Len(values) |->
        IF i = 1 THEN NaN
        ELSE IF values[i] = NaN \/ values[i - 1] = NaN THEN NaN
        ELSE values[i] - values[i - 1]]

\* fillna(method='bfill') on one column: a missing cell takes the next
\* defined value below it, if there is one
bfill(values) ==
    [i \in 1..Len(values) |->
        IF values[i] # NaN THEN values[i]
        ELSE LET below == {j \in (i + 1)..Len(values) : values[j] # NaN}
             IN  IF below = {} THEN NaN
                 ELSE values[CHOOSE j \in below : \A k \in below : j <= k]]

\* fillna(method='ffill') on one column: a missing cell takes the last
\* defined value above it, if there is one
ffill(values) ==
    [i \in 1..Len(values) |->
        IF values[i] # NaN THEN values[i]
        ELSE LET above == {j \in 1..(i - 1) : values[j] # NaN}
             IN  IF above = {} THEN NaN
                 ELSE values[CHOOSE j \in above : \A k \in above : j >= k]]

\* fillna(value)
fillna(values, value) ==
    [i \in 1..Len(values) |-> IF values[i] = NaN THEN value ELSE values[i]]

\* The final pass with the two directions exchanged.
fill_forward_first(values) == fillna(bfill(ffill(values)), 0)

\* df.fillna(method='bfill').fillna(method='ffill').fillna(0), one column
fill(values) == fillna(ffill(bfill(values)), 0)

\* The columns whose cells the model carries: the four telemetry columns
\* detection reads, and of the derived ones time_delta and velocity_grad_1.
ValueColumns ==
    {"velocity", "proton_flux", "temperature", "magnetic_field_magnitude",
     "time_delta", "velocity_grad_1"}

\* The table after the create_* steps, before the final pass.  time_delta
\* is in ticks.
derive(rows) ==
    LET timestamp == [i \in 1..Len(rows) |-> rows[i].timestamp]
        velocity == [i \in 1..Len(rows) |-> rows[i].velocity]
        time_delta == fillna(diff(timestamp), 0)
        velocity_grad_1 == diff(velocity)
    IN  [i \in 1..Len(rows) |->
            [timestamp |-> rows[i].timestamp,
             velocity |-> rows[i].velocity,
             proton_flux |-> rows[i].proton_flux,
             temperature |-> rows[i].temperature,
             magnetic_field_magnitude |-> rows[i].magnetic_field_magnitude,
             time_delta |-> time_delta[i],
             velocity_grad_1 |-> velocity_grad_1[i]]]

\* The final pass over every column.
fill_all(rows) ==
    LET filled == [c \in ValueColumns |->
                      fill([i \in 1..Len(rows) |-> rows[i][c]])]
    IN  [i \in 1..Len(rows) |->
            [c \in ValueColumns \cup {"timestamp"} |->
                IF c = "timestamp" THEN rows[i].timestamp ELSE filled[c][i]]]

\* The create_* steps index every required column (KeyError when one is
\* missing) and only add columns.  unfilled is the table as it is before the
\* final pass.
engineer_features(t) ==
    IF ~(RequiredColumns \subseteq t.cols)
    THEN Raised("KeyError")
    ELSE LET cols == t.cols \cup EngineeredColumns
             derived == derive(sort_values(t.rows))
         IN  [status |-> "ok",
              table |-> Table(cols, fill_all(derived)),
              unfilled |-> Table(cols, derived)]

\* The caller's DataFrame object: the table and the dtype of its timestamp
\* column ('object' when the timestamps are strings).
Frame(t, timestamp_dtype) == [table |-> t, timestamp_dtype |-> timestamp_dtype]

\* The caller's DataFrame after engineer_features(df) has run: line 173
\* assigns the converted column into df itself, before line 174 binds df to
\* the sorted copy.
engineer_features_argument(frame) ==
    IF "timestamp" \in frame.table.cols
    THEN Frame(frame.table, "datetime64[ns]")        \* pd.to_datetime
    ELSE frame

-----------------------------------------------------------------------------
(* CMEDetector.apply_threshold_rules *)

\* The criterion with >= in place of >.
Criterion_inclusive(t, row, col, threshold, weight) ==
    IF col \in t.cols /\ row[col] >= threshold THEN weight ELSE 0

\* np.where(features_df[col] > threshold, weight, 0), 0 when the column is absent
Criterion(t, row, col, threshold, weight) ==
    IF col \in t.cols /\ row[col] > threshold THEN weight ELSE 0

rule_based_scores(t, th) ==
    [i \in 1..Len(t.rows) |->
        Criterion(t, t.rows[i], "velocity",
                  Get(th, "velocity_threshold", DefaultVelocityThreshold),
                  VelocityWeight)
        + Criterion(t, t.rows[i], "proton_flux",
                    Get(th, "flux_threshold", DefaultFluxThreshold),
                    FluxWeight)
        + Criterion(t, t.rows[i], "temperature",
                    Get(th, "temperature_threshold", DefaultTemperatureThreshold),
                    TemperatureWeight)
        + Criterion(t, t.rows[i], "magnetic_field_magnitude",
                    Get(th, "magnetic_field_threshold", DefaultMagneticFieldThreshold),
                    MagneticFieldWeight)]

\* The combined score returned as it is, without np.clip.
clip_missing(x) == x

\* np.clip(x, 0, 1)
clip(x) == IF x < 0 THEN 0 ELSE IF x > Unit THEN Unit ELSE x

\* The weighted sum with the two weights exchanged.
combined_score_swapped(ml, rule) == (RuleWeight * ml + MlWeight * rule) \div 10

\* 0.7 * ml_probabilities + 0.3 * rule_based_scores, one row
combined_score(ml, rule) == (MlWeight * ml + RuleWeight * rule) \div 10

\* ml_probabilities is index-aligned with the table (one entry per row).
apply_threshold_rules(t, ml, th) ==
    LET rule == rule_based_scores(t, th)
    IN  [i \in 1..Len(t.rows) |-> clip(combined_score(ml[i], rule[i]))]

-----------------------------------------------------------------------------
(* CMEDetector._group_consecutive_detections *)

\* The loop with < in place of <=.
RECURSIVE GroupLoopStrict(_, _, _, _, _)
GroupLoopStrict(indices, max_gap, i, groups, current_group) ==
    IF i > Len(indices) THEN Append(groups, current_group)
    ELSE IF indices[i] - indices[i - 1] < max_gap
         THEN GroupLoopStrict(indices, max_gap, i + 1, groups,
                              Append(current_group, indices[i]))
         ELSE GroupLoopStrict(indices, max_gap, i + 1,
                              Append(groups, current_group), <<indices[i]>>)

RECURSIVE GroupLoop(_, _, _, _, _)
GroupLoop(indices, max_gap, i, groups, current_group) ==
    IF i > Len(indices) THEN Append(groups, current_group)
    ELSE IF indices[i] - indices[i - 1] <= max_gap
         THEN GroupLoop(indices, max_gap, i + 1, groups,
                        Append(current_group, indices[i]))
         ELSE GroupLoop(indices, max_gap, i + 1, Append(groups, current_group),
                        <<indices[i]>>)

group_consecutive_detections(indices, max_gap) ==
    IF Len(indices) = 0 THEN <<>>
    ELSE GroupLoop(indices, max_gap, 2, <<>>, <<indices[1]>>)

-----------------------------------------------------------------------------
(* CMEDetector._create_cme_event *)

\* argmax that keeps the last position holding the maximum.
argmax_last(scores, indices) ==
    CHOOSE k \in 1..Len(indices) :
        /\ \A j \in 1..Len(indices) : scores[indices[j] + 1] <= scores[indices[k] + 1]
        /\ \A j \in (k + 1)..Len(indices) :
              scores[indices[j] + 1] < scores[indices[k] + 1]

\* np.argmax(scores[indices]): the first position holding the maximum
argmax(scores, indices) ==
    CHOOSE k \in 1..Len(indices) :
        /\ \A j \in 1..Len(indices) : scores[indices[j] + 1] <= scores[indices[k] + 1]
        /\ \A j \in 1..(k - 1) : scores[indices[j] + 1] < scores[indices[k] + 1]

\* np.random.uniform(low, high) for the draw u in [0, 1), u in thousandths;
\* the result is in thousandths of a degree.
uniform(low, high, u) == low * 1000 + (high - low) * u

\* The classification with >= in place of >.
cme_type_inclusive(velocity, proton_flux) ==
    IF velocity >= HaloVelocity /\ proton_flux >= HaloFlux THEN "halo"
    ELSE IF velocity >= PartialHaloVelocity /\ proton_flux >= PartialHaloFlux
         THEN "partial_halo"
    ELSE "non_halo"

cme_type(velocity, proton_flux) ==
    IF velocity > HaloVelocity /\ proton_flux > HaloFlux THEN "halo"
    ELSE IF velocity > PartialHaloVelocity /\ proton_flux > PartialHaloFlux
         THEN "partial_halo"
    ELSE "non_halo"

cme_width(velocity, proton_flux, u) ==
    IF velocity > HaloVelocity /\ proton_flux > HaloFlux THEN HaloWidth * 1000
    ELSE IF velocity > PartialHaloVelocity /\ proton_flux > PartialHaloFlux
         THEN uniform(PartialHaloWidthLow, PartialHaloWidthHigh, u)
    ELSE uniform(NonHaloWidthLow, NonHaloWidthHigh, u)

\* f'SWIS_{timestamp.strftime("%Y%m%d_%H%M%S")}': the timestamp cut to the second
event_id(timestamp) == <<"SWIS", timestamp \div TicksPerSecond>>

\* min(10, velocity / 100), in hundredths
magnitude(velocity) ==
    IF velocity < MaxMagnitude * 100 THEN velocity ELSE MaxMagnitude * 100

NoEvent ==
    [id |-> <<"SWIS", -1>>, timestamp |-> -1, type |-> "none", velocity |-> 0,
     width |-> 0, confidence |-> 0, source |-> "none", status |-> "none",
     magnitude |-> 0]

EventRaised(e) == [status |-> e, peak_idx |-> -1, event |-> NoEvent]

\* acceleration and coordinates are random fields nothing reads back; they
\* are left out of the event record.
create_cme_event(features, scores, indices, u) ==
    IF \E j \in 1..Len(indices) : indices[j] >= Len(scores)
    THEN EventRaised("IndexError")                \* scores[indices]
    ELSE LET peak_idx == indices[argmax(scores, indices)]
         IN  IF peak_idx >= Len(features.rows)
             THEN EventRaised("IndexError")       \* features_df.iloc[peak_idx]
             ELSE IF "timestamp" \notin features.cols
             THEN EventRaised("KeyError")         \* peak_data["timestamp"]
             ELSE LET peak_data == features.rows[peak_idx + 1]
                      velocity == Cell(features, peak_data, "velocity",
                                       DefaultPeakVelocity)
                      proton_flux == Cell(features, peak_data, "proton_flux",
                                          DefaultPeakFlux)
                  IN  [status |-> "ok",
                       peak_idx |-> peak_idx,
                       event |->
                         [id |-> event_id(peak_data.timestamp),
                          timestamp |-> peak_data.timestamp,
                          type |-> cme_type(velocity, proton_flux),
                          velocity |-> velocity,
                          width |-> cme_width(velocity, proton_flux, u),
                          confidence |-> scores[peak_idx + 1],
                          source |-> "swis",
                          status |-> "detected",
                          magnitude |-> magnitude(velocity)]]

-----------------------------------------------------------------------------
(* The estimator objects (scikit-learn), by what the Detector depends on:   *)
(* whether an object was fitted, by which train_models call (0: by an       *)
(* earlier process), on how many feature columns, and for the classifier on *)
(* how many classes.                                                        *)

Unfitted == [fitted |-> FALSE, fit_id |-> 0, n_features |-> 0, n_classes |-> 0]

Fitted(id, n_features, n_classes) ==
    [fitted |-> TRUE, fit_id |-> id, n_features |-> n_features,
     n_classes |-> n_classes]

ModelNames == <<"isolation_forest", "svm", "random_forest">>

\* CMEDetector.__init__
NewModels == [name \in Range(ModelNames) |-> Unfitted]

NewDetector ==
    [is_trained |-> FALSE, feature_columns |-> <<>>, scaler |-> Unfitted,
     models |-> NewModels]

\* The Detector object as the methods see it.
Self ==
    [is_trained |-> is_trained, feature_columns |-> feature_columns,
     scaler |-> scaler, models |-> models]

-----------------------------------------------------------------------------
(* CMEDetector.prepare_training_data *)

\* timedelta(minutes=30), in ticks
WindowTicks == WindowMinutes * 60 * TicksPerSecond

\* The window test with < and > in place of <= and >=.
in_window_strict(timestamp, cme_time) ==
    /\ timestamp > cme_time - WindowTicks
    /\ timestamp < cme_time + WindowTicks

\* (features_df['timestamp'] >= start_time) & (features_df['timestamp'] <= end_time)
in_window(timestamp, cme_time) ==
    /\ timestamp >= cme_time - WindowTicks
    /\ timestamp <= cme_time + WindowTicks

\* The loop over cme_events_df.iterrows(): labels[mask] = 1 for each event.
RECURSIVE LabelLoop(_, _, _, _)
LabelLoop(features, cme_events, k, labels) ==
    IF k > Len(cme_events) THEN labels
    ELSE LabelLoop(features, cme_events, k + 1,
                   [i \in 1..Len(labels) |->
                       IF in_window(features.rows[i].timestamp, cme_events[k])
                       THEN 1 ELSE labels[i]])

Prepared(status, features, labels) ==
    [status |-> status, table |-> features, labels |-> labels]

prepare_training_data(particle_df, cme_events) ==
    LET engineered == engineer_features(particle_df)
        features == engineered.table
        zeros == [i \in 1..Len(features.rows) |-> 0]      \* np.zeros(len(features_df))
    IN  IF engineered.status # "ok"
        THEN Prepared(engineered.status, EmptyTable, <<>>)
        ELSE Prepared("ok", features, LabelLoop(features, cme_events, 1, zeros))

-----------------------------------------------------------------------------
(* CMEDetector.train_models: the Detector after the call, and the outcome   *)

Outcome(status, self) == [status |-> status, self |-> self]

\* len(X_scaled[labels == 0])
n_normal(labels) == Cardinality({i \in 1..Len(labels) : labels[i] = 0})

\* One pass of the loop over self.models for a novelty detector: fitted on
\* the normal rows when there are any, left as it is otherwise.
fit_novelty(model, id, n_features, labels) ==
    IF n_normal(labels) > 0 THEN Fitted(id, n_features, 0) ELSE model

\* The loop over self.models.items()
fit_models(self, id, n_features, labels) ==
    [self EXCEPT
       !.models =
          [isolation_forest |->
              fit_novelty(self.models["isolation_forest"], id, n_features, labels),
           svm |->
              fit_novelty(self.models["svm"], id, n_features, labels),
           random_forest |->
              Fitted(id, n_features, Cardinality(Range(labels)))]]

\* train_models with the flag cleared on entry and set again at the end.
train_models_clearing_flag(self, t, labels, id) ==
    LET columns == get_feature_importance_columns
        available_columns == SelectSeqIn(columns, t.cols)
        assigned == [self EXCEPT !.feature_columns = columns,
                                 !.is_trained = FALSE]
        n_features == Len(available_columns)
        scaled == [assigned EXCEPT !.scaler = Fitted(id, n_features, 0)]
    IN  IF available_columns = <<>> THEN Outcome("ValueError", assigned)
        ELSE IF Len(t.rows) = 0 THEN Outcome("ValueError", assigned)
        ELSE IF Len(labels) # Len(t.rows) THEN Outcome("IndexError", scaled)
        ELSE Outcome("ok", [fit_models(scaled, id, n_features, labels)
                              EXCEPT !.is_trained = TRUE])

train_models(self, t, labels, id) ==
    LET columns == get_feature_importance_columns
        available_columns == SelectSeqIn(columns, t.cols)
        assigned == [self EXCEPT !.feature_columns = columns]
        n_features == Len(available_columns)
        scaled == [assigned EXCEPT !.scaler = Fitted(id, n_features, 0)]
    IN  IF available_columns = <<>>
        THEN Outcome("ValueError", assigned)        \* no feature columns
        ELSE IF Len(t.rows) = 0
        THEN Outcome("ValueError", assigned)        \* scaler.fit_transform
        ELSE IF Len(labels) # Len(t.rows)
        THEN Outcome("IndexError", scaled)          \* X_scaled[labels == 0]
        ELSE Outcome("ok", [fit_models(scaled, id, n_features, labels)
                              EXCEPT !.is_trained = TRUE])

-----------------------------------------------------------------------------
(* CMEDetector.predict_cme_probability.  ml is what the ensemble mean is on *)
(* this table when every model answers.                                     *)

Scores(status, scores) == [status |-> status, scores |-> scores]

\* model.decision_function(X_scaled) of a novelty detector
decision_function_status(model, n_features) ==
    IF ~model.fitted THEN "NotFittedError"
    ELSE IF model.n_features # n_features THEN "ValueError"
    ELSE "ok"

\* model.predict_proba(X_scaled)[:, 1]
predict_proba_status(model, n_features) ==
    IF ~model.fitted THEN "NotFittedError"
    ELSE IF model.n_features # n_features THEN "ValueError"
    ELSE IF model.n_classes < 2 THEN "IndexError"
    ELSE "ok"

\* self.scaler.transform(X)
transform_status(sc, n_rows, n_features) ==
    IF ~sc.fitted THEN "NotFittedError"
    ELSE IF n_rows = 0 \/ sc.n_features # n_features THEN "ValueError"
    ELSE "ok"

\* Decision scores are in units of 1e-6, so the 1e-6 of the normalisation is
\* one unit.
Epsilon == 1

\* scores.min() and scores.max()
SeqMin(scores) == CHOOSE x \in Range(scores) : \A y \in Range(scores) : x <= y
SeqMax(scores) == CHOOSE x \in Range(scores) : \A y \in Range(scores) : x >= y

\* The normalised scores returned without the inversion 1 - prob.
novelty_probability_uninverted(scores) ==
    [i \in 1..Len(scores) |->
        ((scores[i] - SeqMin(scores)) * Unit)
            \div (SeqMax(scores) - SeqMin(scores) + Epsilon)]

\* prob = (scores - scores.min()) / (scores.max() - scores.min() + 1e-6)
\* prob = 1 - prob
novelty_probability(scores) ==
    [i \in 1..Len(scores) |->
        Unit - ((scores[i] - SeqMin(scores)) * Unit)
                   \div (SeqMax(scores) - SeqMin(scores) + Epsilon)]

\* The predictions list after the loop over self.models: the two novelty
\* detectors' inverted normalised scores and the classifier's probability of
\* the CME class.
model_predictions(decision_if, decision_svm, proba) ==
    <<novelty_probability(decision_if), novelty_probability(decision_svm), proba>>

\* np.mean(predictions, axis=0)
ensemble_prob(predictions) ==
    [i \in 1..Len(predictions[1]) |->
        (predictions[1][i] + predictions[2][i] + predictions[3][i])
            \div Len(predictions)]

predict_cme_probability(self, t, ml) ==
    IF ~self.is_trained THEN Scores("ValueError", <<>>)   \* models must be trained
    ELSE LET available_columns == SelectSeqIn(self.feature_columns, t.cols)
             n == Len(available_columns)
             st == transform_status(self.scaler, Len(t.rows), n)
             s1 == decision_function_status(self.models["isolation_forest"], n)
             s2 == decision_function_status(self.models["svm"], n)
             s3 == predict_proba_status(self.models["random_forest"], n)
         IN  IF st # "ok" THEN Scores(st, <<>>)
             ELSE IF s1 # "ok" THEN Scores(s1, <<>>)
             ELSE IF s2 # "ok" THEN Scores(s2, <<>>)
             ELSE IF s3 # "ok" THEN Scores(s3, <<>>)
             ELSE Scores("ok", ml)

-----------------------------------------------------------------------------
(* CMEDetector.detect_cme_events and CMEDetector.rule_based_detection       *)

Detection(status, ensemble, rule, scores, selected, groups, events) ==
    [status |-> status, ensemble_called |-> ensemble, rule_scores |-> rule,
     scores |-> scores, selected |-> selected, groups |-> groups,
     events |-> events]

NoDetection(status, ensemble) ==
    Detection(status, ensemble, <<>>, <<>>, <<>>, <<>>, <<>>)

\* np.where(mask)[0]: the 0-based positions where the mask holds, ascending
RECURSIVE where(_, _)
where(mask, n) ==
    IF n = 0 THEN <<>>
    ELSE IF mask[n] THEN Append(where(mask, n - 1), n - 1)
    ELSE where(mask, n - 1)

\* The loop over event_groups: one event per group, the draw us[g] for group g.
extract_events(features, scores, mask, us, ensemble, rule) ==
    LET cme_indices == where(mask, Len(mask))
        event_groups == group_consecutive_detections(cme_indices, DefaultMaxGap)
        made == [g \in 1..Len(event_groups) |->
                    create_cme_event(features, scores, event_groups[g], us[g])]
    IN  IF \E g \in 1..Len(made) : made[g].status # "ok"
        THEN LET g == CHOOSE g \in 1..Len(made) :
                        /\ made[g].status # "ok"
                        /\ \A h \in 1..(g - 1) : made[h].status = "ok"
             IN  NoDetection(made[g].status, ensemble)
        ELSE Detection("ok", ensemble, rule, scores, cme_indices, event_groups,
                       [g \in 1..Len(made) |-> made[g].event])

\* rule_based_detection with | in place of & in the mask.
rule_based_detection_either(th, particle_df, us) ==
    LET engineered == engineer_features(particle_df)
        features == engineered.table
        velocity_threshold == Get(th, "velocity_threshold", DefaultVelocityThreshold)
        flux_threshold == Get(th, "flux_threshold", DefaultFluxThreshold)
        cme_mask == [i \in 1..Len(features.rows) |->
                        \/ Cell(features, features.rows[i], "velocity", 0)
                              > velocity_threshold
                        \/ Cell(features, features.rows[i], "proton_flux", 0)
                              > flux_threshold]
    IN  IF engineered.status # "ok" THEN NoDetection(engineered.status, FALSE)
        ELSE extract_events(features,
                            [i \in 1..Len(features.rows) |-> RuleOnlyScore],
                            cme_mask, us, FALSE, <<>>)

rule_based_detection(th, particle_df, us) ==
    LET engineered == engineer_features(particle_df)
        features == engineered.table
        velocity_threshold == Get(th, "velocity_threshold", DefaultVelocityThreshold)
        flux_threshold == Get(th, "flux_threshold", DefaultFluxThreshold)
        cme_mask == [i \in 1..Len(features.rows) |->
                        /\ Cell(features, features.rows[i], "velocity", 0)
                              > velocity_threshold
                        /\ Cell(features, features.rows[i], "proton_flux", 0)
                              > flux_threshold]
    IN  IF engineered.status # "ok" THEN NoDetection(engineered.status, FALSE)
        ELSE extract_events(features,
                            [i \in 1..Len(features.rows) |-> RuleOnlyScore],
                            cme_mask, us, FALSE, <<>>)

\* detect_cme_events with >= in place of > in the selection.
detect_cme_events_inclusive(self, th, particle_df, ml, us) ==
    IF ~self.is_trained THEN rule_based_detection(th, particle_df, us)
    ELSE LET engineered == engineer_features(particle_df)
             features == engineered.table
             predicted == predict_cme_probability(self, features, ml)
             final_scores == apply_threshold_rules(features, predicted.scores, th)
             confidence_threshold ==
                 Get(th, "confidence_threshold", DefaultConfidenceThreshold)
             cme_mask == [i \in 1..Len(features.rows) |->
                             final_scores[i] >= confidence_threshold]
         IN  IF engineered.status # "ok" THEN NoDetection(engineered.status, FALSE)
             ELSE IF predicted.status # "ok" THEN NoDetection(predicted.status, TRUE)
             ELSE extract_events(features, final_scores, cme_mask, us, TRUE,
                                 rule_based_scores(features, th))

detect_cme_events(self, th, particle_df, ml, us) ==
    IF ~self.is_trained THEN rule_based_detection(th, particle_df, us)
    ELSE LET engineered == engineer_features(particle_df)
             features == engineered.table
             predicted == predict_cme_probability(self, features, ml)
             final_scores == apply_threshold_rules(features, predicted.scores, th)
             confidence_threshold ==
                 Get(th, "confidence_threshold", DefaultConfidenceThreshold)
             cme_mask == [i \in 1..Len(features.rows) |->
                             final_scores[i] > confidence_threshold]
         IN  IF engineered.status # "ok" THEN NoDetection(engineered.status, FALSE)
             ELSE IF predicted.status # "ok" THEN NoDetection(predicted.status, TRUE)
             ELSE extract_events(features, final_scores, cme_mask, us, TRUE,
                                 rule_based_scores(features, th))

-----------------------------------------------------------------------------
(* CMEDetector.save_models and CMEDetector.load_models                      *)

\* The file at the path: whether it exists, whether it holds only the first
\* part of a dump, and the model_data a complete dump holds.
NoFile ==
    [exists |-> FALSE, partial |-> FALSE, models |-> NewModels,
     scaler |-> Unfitted, feature_columns |-> <<>>]

\* The file after open(filepath, 'wb') and before the dump has been written
\* to its end.
PartialFile == [NoFile EXCEPT !.exists = TRUE, !.partial = TRUE]

\* joblib.dump(model_data, filepath)
model_data(self) ==
    [exists |-> TRUE, partial |-> FALSE, models |-> self.models,
     scaler |-> self.scaler, feature_columns |-> self.feature_columns]

save_models(self, file) ==
    IF ~self.is_trained THEN [status |-> "ValueError", file |-> file]
    ELSE [status |-> "ok", file |-> model_data(self)]

\* load_models with the trained flag left as it is.
load_models_keeping_flag(self, file) ==
    IF ~file.exists THEN Outcome("FileNotFoundError", self)
    ELSE IF file.partial THEN Outcome("EOFError", self)
    ELSE Outcome("ok",
                 [is_trained |-> self.is_trained,
                  feature_columns |-> file.feature_columns,
                  scaler |-> file.scaler, models |-> file.models])

\* joblib.load raises before anything is assigned when the file is missing
\* or ends before the pickle does (EOFError here; the class depends on where
\* the stream ends).
load_models(self, file) ==
    IF ~file.exists THEN Outcome("FileNotFoundError", self)   \* joblib.load
    ELSE IF file.partial THEN Outcome("EOFError", self)
    ELSE Outcome("ok",
                 [is_trained |-> TRUE, feature_columns |-> file.feature_columns,
                  scaler |-> file.scaler, models |-> file.models])

-----------------------------------------------------------------------------
(* The values the model draws *)

\* self.thresholds: no key configured (every .get falls to its default), or
\* a configuration that sets two of the keys.
ThresholdConfigs ==
    { [k \in {} |-> 0],
      [velocity_threshold |-> 450, confidence_threshold |-> 5000] }

\* The draws u of np.random.uniform, in thousandths.
USamples == {0, 500, 999}

\* The number of events a table of n rows can give: groups are more than
\* DefaultMaxGap rows apart.
MaxGroups(n) == (n + DefaultMaxGap) \div (DefaultMaxGap + 1)

Draws(n) == [1..MaxGroups(n) -> USamples]

\* Rows of the lifecycle tables.
Quiet == Row(0, 400, 1000, 150000, 5)
Storm == Row(60, 801, 2001, 250000, 12)

LifecycleTables ==
    { Table(cols, rows) :
        cols \in {FullColumns, RawColumns, {"timestamp", "density"}},
        rows \in {<<Quiet, Storm>>} }

\* The draws of np.random.uniform in the lifecycle: the middle of the
\* interval for every event.
LifecycleDraw(t) == [g \in 1..MaxGroups(Len(t.rows)) |-> 500]

\* Label vectors for a table: every 0/1 vector of its length, and one that
\* is one entry too long.
LabelsFor(t) ==
    [1..Len(t.rows) -> {0, 1}] \cup {[i \in 1..(Len(t.rows) + 1) |-> 0]}

\* Ensemble means for a table: one value in [0, 1] per row.
MlFor(t) == [1..Len(t.rows) -> {0, Unit}]

NoInput == [kind |-> "none"]
NoCall == [op |-> "none"]
NoRet == [status |-> "none"]
NotRunning == [op |-> "none"]

-----------------------------------------------------------------------------
(* The Detector's operations as steps of the state machine *)

SetDetector(self) ==
    /\ is_trained' = self.is_trained
    /\ feature_columns' = self.feature_columns
    /\ scaler' = self.scaler
    /\ models' = self.models

TrainModels(t, labels) ==
    /\ train_count < MaxTrain
    /\ LET done == train_models(Self, t, labels, train_count + 1)
       IN  /\ SetDetector(done.self)
           /\ ret' = [status |-> done.status]
    /\ train_count' = train_count + 1
    /\ call' = [op |-> "train_models", table |-> t, labels |-> labels]
    /\ UNCHANGED <<stored_events, alerts_sent, thresholds, disk, input, running>>

\* predict_cme_probability with fit_transform in place of transform: the
\* scaler is fitted again on the table it is asked to score.
PredictRefittingScaler(t, ml) ==
    /\ ret' = predict_cme_probability(Self, t, ml)
    /\ call' = [op |-> "predict_cme_probability", table |-> t, ml |-> ml]
    /\ scaler' = IF is_trained
                 THEN Fitted(MaxTrain + 1,
                             Len(SelectSeqIn(feature_columns, t.cols)), 0)
                 ELSE scaler
    /\ UNCHANGED <<stored_events, alerts_sent, thresholds, is_trained, feature_columns, models, train_count,
                   disk, input, running>>

PredictCmeProbability(t, ml) ==
    /\ ret' = predict_cme_probability(Self, t, ml)
    /\ call' = [op |-> "predict_cme_probability", table |-> t, ml |-> ml]
    /\ UNCHANGED <<stored_events, alerts_sent, thresholds, detector, train_count, disk, input, running>>

DetectCmeEvents(t, ml, us) ==
    /\ ret' = detect_cme_events(Self, thresholds, t, ml, us)
    /\ call' = [op |-> "detect_cme_events", table |-> t, ml |-> ml]
    /\ UNCHANGED <<stored_events, alerts_sent, thresholds, detector, train_count, disk, input, running>>

RuleBasedDetection(t, us) ==
    /\ ret' = rule_based_detection(thresholds, t, us)
    /\ call' = [op |-> "rule_based_detection", table |-> t]
    /\ UNCHANGED <<stored_events, alerts_sent, thresholds, detector, train_count, disk, input, running>>

SaveModels ==
    /\ LET done == save_models(Self, disk)
       IN  /\ disk' = done.file
           /\ ret' = [status |-> done.status]
    /\ call' = [op |-> "save_models"]
    /\ UNCHANGED <<stored_events, alerts_sent, thresholds, detector, train_count, input, running>>

LoadModels ==
    /\ LET done == load_models(Self, disk)
       IN  /\ SetDetector(done.self)
           /\ ret' = [status |-> done.status]
    /\ call' = [op |-> "load_models"]
    /\ UNCHANGED <<stored_events, alerts_sent, thresholds, train_count, disk, input, running>>

-----------------------------------------------------------------------------
(* Spec: the life of one Detector.  The model file may hold the artifact a  *)
(* Detector of an earlier process saved after training on the full column   *)
(* list with both classes present.                                          *)

EarlierArtifact ==
    [exists |-> TRUE, partial |-> FALSE,
     models |-> [name \in Range(ModelNames) |->
                    Fitted(0, Len(get_feature_importance_columns),
                           IF name = "random_forest" THEN 2 ELSE 0)],
     scaler |-> Fitted(0, Len(get_feature_importance_columns), 0),
     feature_columns |-> get_feature_importance_columns]

InitDetector ==
    /\ is_trained = NewDetector.is_trained
    /\ feature_columns = NewDetector.feature_columns
    /\ scaler = NewDetector.scaler
    /\ models = NewDetector.models
    /\ train_count = 0
    /\ call = NoCall
    /\ ret = NoRet
    /\ running = NotRunning
    /\ stored_events = <<>>
    /\ alerts_sent = <<>>

Init ==
    /\ InitDetector
    /\ thresholds \in ThresholdConfigs
    /\ disk \in {NoFile, EarlierArtifact}
    /\ input = NoInput

Next ==
    \/ \E t \in LifecycleTables : \E labels \in LabelsFor(t) : TrainModels(t, labels)
    \/ \E t \in LifecycleTables : \E ml \in MlFor(t) : PredictCmeProbability(t, ml)
    \/ \E t \in LifecycleTables : \E ml \in MlFor(t) :
          DetectCmeEvents(t, ml, LifecycleDraw(t))
    \/ \E t \in LifecycleTables : RuleBasedDetection(t, LifecycleDraw(t))
    \/ SaveModels
    \/ LoadModels

Spec == Init /\ [][Next]_vars

-----------------------------------------------------------------------------
(* SpecDetect: detect_cme_events on a drawn batch, by a Detector that is    *)
(* untrained or was trained once                                            *)

\* (velocity, proton_flux, temperature, magnetic_field_magnitude) of the rows
\* of a short batch: at or just above the default thresholds.
DetectRowKinds ==
    { <<v, f, 150000, 5>> : v \in {500, 501}, f \in {1200, 1201} }
        \cup { <<501, 1201, 250000, 12>> }

\* A batch of the given rows, one second apart, in ascending or descending
\* order of timestamp.
DetectTable(cols, kinds, descending) ==
    Table(cols,
          [i \in 1..Len(kinds) |->
              Row(TicksPerSecond * (IF descending THEN Len(kinds) - i ELSE i - 1),
                  kinds[i][1], kinds[i][2], kinds[i][3], kinds[i][4])])

\* A batch long enough for two events: more than DefaultMaxGap rows between
\* its second and its last row.
LongRows == DefaultMaxGap + 2

\* The rows of a long batch that are above every threshold; the others are
\* quiet.
LongTable(hot) ==
    DetectTable(RawColumns,
                [i \in 1..LongRows |->
                    IF i \in hot THEN <<801, 2001, 250000, 12>>
                    ELSE <<400, 1000, 150000, 5>>],
                FALSE)

\* Ensemble means: one value in [0, 1] per row.
DetectMl == {0, 5000, Unit}

DetectInput(t, ml, us) == [kind |-> "detect", table |-> t, ml |-> ml, us |-> us]

InitDetect ==
    /\ InitDetector
    /\ thresholds \in ThresholdConfigs
    /\ disk = NoFile
    /\ \/ \E n \in 1..MaxRows :
          \E cols \in {RawColumns, RawColumns \ {"velocity"}} :
          \E kinds \in [1..n -> DetectRowKinds] :
          \E descending \in BOOLEAN :
          \E ml \in [1..n -> DetectMl] :
          \E us \in Draws(n) :
             input = DetectInput(DetectTable(cols, kinds, descending), ml, us)
       \/ \E hot \in SUBSET {1, 2, LongRows} :
          \E p \in {5000, Unit} :
          \E us \in Draws(LongRows) :
             input = DetectInput(LongTable(hot), [i \in 1..LongRows |-> p], us)

\* The one training of the Detector: on the engineered sample table, with
\* both classes among the labels or with one class only.
TrainOnce ==
    /\ train_count = 0
    /\ \E labels \in {<<0, 1>>, <<1, 1>>} :
          TrainModels(Table(FullColumns, <<Quiet, Storm>>), labels)

DetectBatch == DetectCmeEvents(input.table, input.ml, input.us)

NextDetect ==
    \/ TrainOnce
    \/ DetectBatch

SpecDetect == InitDetect /\ [][NextDetect]_vars

-----------------------------------------------------------------------------
(* SpecPrepare: prepare_training_data on a drawn batch and known events     *)

\* Timestamps of the batch rows: at, just inside and just outside the ends
\* of the windows of the known events below.
PrepareTimes ==
    {0, 1, WindowTicks, WindowTicks + 1, 2 * WindowTicks, 2 * WindowTicks + 1,
     3 * WindowTicks + 1, 3 * WindowTicks + 2}

\* Timestamps of the known events: two whose windows overlap.
KnownEventTimes == {WindowTicks, 2 * WindowTicks + 1}

PrepareTable(cols, times) ==
    Table(cols, [i \in 1..Len(times) |-> Row(times[i], 400 + i, 1000, 150000, 5)])

InitPrepare ==
    /\ InitDetector
    /\ thresholds = [k \in {} |-> 0]
    /\ disk = NoFile
    /\ \E n \in 1..MaxRows :
       \E cols \in {RawColumns, RawColumns \ {"timestamp"}} :
       \E times \in [1..n -> PrepareTimes] :
       \E m \in 0..MaxKnownEvents :
       \E cme_events \in [1..m -> KnownEventTimes] :
          input = [kind |-> "prepare", table |-> PrepareTable(cols, times),
                   cme_events |-> cme_events]

PrepareTrainingData ==
    /\ call = NoCall
    /\ ret' = prepare_training_data(input.table, input.cme_events)
    /\ call' = [op |-> "prepare_training_data"]
    /\ UNCHANGED <<stored_events, alerts_sent, thresholds, detector, train_count, disk, input, running>>

NextPrepare == PrepareTrainingData

SpecPrepare == InitPrepare /\ [][NextPrepare]_vars

-----------------------------------------------------------------------------
(* SpecOverlap: train_models statement by statement, on a Detector that      *)
(* another thread asks for predictions meanwhile.  CMEDetector holds no     *)
(* lock, so a prediction may run between any two statements of a training.  *)
(* running.entry is the Detector as it was when the training began.         *)

OverlapTables ==
    { Table(cols, <<Quiet, Storm>>) : cols \in {FullColumns, RawColumns} }

OverlapLabels == {<<0, 1>>, <<1, 1>>}

\* The training returns or raises.
TrainReturns(status) ==
    /\ ret' = [status |-> status]
    /\ call' = [op |-> "train_models", table |-> running.table,
                labels |-> running.labels]
    /\ running' = NotRunning

\* Lines 76-80: the column list is assigned, then the columns are looked up.
TrainBegin(t, labels) ==
    /\ running = NotRunning
    /\ train_count < MaxTrain
    /\ train_count' = train_count + 1
    /\ feature_columns' = get_feature_importance_columns
    /\ IF SelectSeqIn(get_feature_importance_columns, t.cols) = <<>>
       THEN /\ ret' = [status |-> "ValueError"]
            /\ call' = [op |-> "train_models", table |-> t, labels |-> labels]
            /\ running' = NotRunning
       ELSE /\ running' = [op |-> "train_models", pc |-> "scaler", table |-> t,
                           labels |-> labels, id |-> train_count + 1,
                           entry |-> Self]
            /\ UNCHANGED <<call, ret>>
    /\ UNCHANGED <<stored_events, alerts_sent, thresholds, is_trained, scaler, models, disk, input>>

\* Line 85: self.scaler.fit_transform(X)
TrainFitScaler ==
    /\ running.op = "train_models"
    /\ running.pc = "scaler"
    /\ IF Len(running.table.rows) = 0
       THEN /\ TrainReturns("ValueError")
            /\ UNCHANGED scaler
       ELSE /\ scaler' = Fitted(running.id,
                                Len(SelectSeqIn(get_feature_importance_columns,
                                                running.table.cols)), 0)
            /\ running' = [running EXCEPT !.pc = "isolation_forest"]
            /\ UNCHANGED <<call, ret>>
    /\ UNCHANGED <<stored_events, alerts_sent, thresholds, is_trained, feature_columns, models, train_count,
                   disk, input>>

\* Lines 88-99: one pass of the loop over self.models.items()
TrainFitModel ==
    /\ running.op = "train_models"
    /\ running.pc \in Range(ModelNames)
    /\ LET name == running.pc
           n_features == Len(SelectSeqIn(get_feature_importance_columns,
                                         running.table.cols))
       IN  IF Len(running.labels) # Len(running.table.rows)
           THEN /\ TrainReturns("IndexError")
                /\ UNCHANGED models
           ELSE /\ models' =
                     [models EXCEPT ![name] =
                        IF name = "random_forest"
                        THEN Fitted(running.id, n_features,
                                    Cardinality(Range(running.labels)))
                        ELSE fit_novelty(models[name], running.id, n_features,
                                         running.labels)]
                /\ running' =
                     [running EXCEPT !.pc =
                        IF name = "isolation_forest" THEN "svm"
                        ELSE IF name = "svm" THEN "random_forest"
                        ELSE "flag"]
                /\ UNCHANGED <<call, ret>>
    /\ UNCHANGED <<stored_events, alerts_sent, thresholds, is_trained, feature_columns, scaler, train_count,
                   disk, input>>

\* Line 101: self.is_trained = True
TrainFinish ==
    /\ running.op = "train_models"
    /\ running.pc = "flag"
    /\ is_trained' = TRUE
    /\ TrainReturns("ok")
    /\ UNCHANGED <<stored_events, alerts_sent, thresholds, feature_columns, scaler, models, train_count,
                   disk, input>>

InitOverlap ==
    /\ InitDetector
    /\ thresholds = [k \in {} |-> 0]
    /\ disk = NoFile
    /\ input = NoInput

NextOverlap ==
    \/ \E t \in OverlapTables : \E labels \in OverlapLabels : TrainBegin(t, labels)
    \/ TrainFitScaler
    \/ TrainFitModel
    \/ TrainFinish
    \/ \E t \in OverlapTables : \E ml \in MlFor(t) : PredictCmeProbability(t, ml)

SpecOverlap == InitOverlap /\ [][NextOverlap]_vars

-----------------------------------------------------------------------------
(* SpecPersist: save_models step by step, with loaders of the same path.    *)
(* joblib.dump opens the path for writing, which empties the file, and then *)
(* writes the pickle into it; the write can be cut short (the process is    *)
(* killed, the disk is full).  A loader is a new Detector, of this process  *)
(* or another, calling load_models on the path: ret.self is that Detector   *)
(* after the call.                                                          *)

\* Lines 291-292 and the opening of the file in joblib.dump (line 301).
SaveBegin ==
    /\ running = NotRunning
    /\ IF ~is_trained
       THEN /\ ret' = [status |-> "ValueError"]
            /\ call' = [op |-> "save_models"]
            /\ UNCHANGED <<disk, running>>
       ELSE /\ disk' = PartialFile
            /\ running' = [op |-> "save_models", pc |-> "dump",
                           entry |-> Self, previous |-> disk]
            /\ UNCHANGED <<call, ret>>
    /\ UNCHANGED <<stored_events, alerts_sent, thresholds, detector, train_count, input>>

\* joblib.dump writes the pickle to its end and save_models returns.
SaveFinish ==
    /\ running.op = "save_models"
    /\ disk' = model_data(Self)
    /\ ret' = [status |-> "ok"]
    /\ call' = [op |-> "save_models"]
    /\ running' = NotRunning
    /\ UNCHANGED <<stored_events, alerts_sent, thresholds, detector, train_count, input>>

\* The write is cut short: the file keeps what was written so far.
SaveInterrupted ==
    /\ running.op = "save_models"
    /\ ret' = [status |-> "interrupted"]
    /\ call' = [op |-> "save_models"]
    /\ running' = NotRunning
    /\ UNCHANGED <<stored_events, alerts_sent, thresholds, detector, train_count, disk, input>>

\* CMEDetector().load_models(filepath) by a loader
FreshLoadModels ==
    /\ ret' = load_models(NewDetector, disk)
    /\ call' = [op |-> "load_models", fresh |-> TRUE]
    /\ UNCHANGED <<stored_events, alerts_sent, thresholds, detector, train_count, disk, input, running>>

\* train_models between two calls, as one step
TrainBetweenSaves ==
    /\ running = NotRunning
    /\ \E t \in OverlapTables : \E labels \in OverlapLabels : TrainModels(t, labels)

InitPersist ==
    /\ InitDetector
    /\ thresholds = [k \in {} |-> 0]
    /\ disk \in {NoFile, EarlierArtifact}
    /\ input = NoInput

NextPersist ==
    \/ TrainBetweenSaves
    \/ SaveBegin
    \/ SaveFinish
    \/ SaveInterrupted
    \/ FreshLoadModels

SpecPersist == InitPersist /\ [][NextPersist]_vars

-----------------------------------------------------------------------------
(* SpecEngineer: one call with a caller's DataFrame as argument, of         *)
(* engineer_features or of one of the three Detector methods that pass      *)
(* their argument on to it.  input.frame is the caller's DataFrame.         *)

\* Timestamps of the rows, in ticks: equal ones and any order may be drawn.
EngineerTimes == {0, TicksPerSecond, 2 * TicksPerSecond}

\* Velocity cells: missing, quiet, above the default threshold.
EngineerVelocities == {NaN, 400, 501}

EngineerTable(cols, times, velocities, proton_flux) ==
    Table(cols,
          [i \in 1..Len(times) |->
              Row(times[i], velocities[i], proton_flux, 150000, 5)])

InitEngineer ==
    /\ InitDetector
    /\ thresholds = [k \in {} |-> 0]
    /\ disk = NoFile
    /\ \E n \in 1..MaxEngineerRows :
       \E cols \in {RawColumns, RawColumns \ {"velocity"}} :
       \E times \in [1..n -> EngineerTimes] :
       \E velocities \in [1..n -> EngineerVelocities] :
       \E proton_flux \in {NaN, 1201} :
       \E timestamp_dtype \in {"object", "datetime64[ns]"} :
          input = [kind |-> "frame",
                   frame |-> Frame(EngineerTable(cols, times, velocities,
                                                 proton_flux),
                                   timestamp_dtype)]

\* The frame of every step below: the call is the first one on the drawn
\* DataFrame and leaves everything but the DataFrame alone.
FirstCallOnFrame(op) ==
    /\ call = NoCall
    /\ call' = [op |-> op]
    /\ input' = [input EXCEPT !.frame = engineer_features_argument(input.frame)]
    /\ UNCHANGED <<stored_events, alerts_sent, thresholds, detector, train_count, disk, running>>

EngineerFeatures ==
    /\ FirstCallOnFrame("engineer_features")
    /\ ret' = engineer_features(input.frame.table)

DetectCmeEventsOnFrame ==
    /\ FirstCallOnFrame("detect_cme_events")
    /\ ret' = detect_cme_events(Self, thresholds, input.frame.table,
                                [i \in 1..Len(input.frame.table.rows) |-> 0],
                                [g \in 1..MaxGroups(MaxEngineerRows) |-> 0])

RuleBasedDetectionOnFrame ==
    /\ FirstCallOnFrame("rule_based_detection")
    /\ ret' = rule_based_detection(thresholds, input.frame.table,
                                   [g \in 1..MaxGroups(MaxEngineerRows) |-> 0])

PrepareTrainingDataOnFrame ==
    /\ FirstCallOnFrame("prepare_training_data")
    /\ ret' = prepare_training_data(input.frame.table, <<0>>)

NextEngineer ==
    \/ EngineerFeatures
    \/ DetectCmeEventsOnFrame
    \/ RuleBasedDetectionOnFrame
    \/ PrepareTrainingDataOnFrame

SpecEngineer == InitEngineer /\ [][NextEngineer]_vars

-----------------------------------------------------------------------------
(* SpecGroup: _group_consecutive_detections on a drawn index array          *)

\* The ascending array of the members of S, as np.where gives it.
Ascending(S, n) == where([i \in 1..n |-> (i - 1) \in S], n)

GapArgs == (0..MaxGapArg) \cup {DefaultMaxGap}

InitGroup ==
    /\ InitDetector
    /\ thresholds = [k \in {} |-> 0]
    /\ disk = NoFile
    /\ \E S \in SUBSET (0..MaxIndex) :
         \E g \in GapArgs :
           input = [kind |-> "group", indices |-> Ascending(S, MaxIndex + 1),
                    max_gap |-> g]

GroupConsecutiveDetections ==
    /\ call = NoCall
    /\ input.kind = "group"
    /\ ret' = [status |-> "ok",
               groups |-> group_consecutive_detections(input.indices,
                                                       input.max_gap)]
    /\ call' = [op |-> "_group_consecutive_detections"]
    /\ UNCHANGED <<stored_events, alerts_sent, thresholds, detector, train_count, disk, input, running>>

NextGroup == GroupConsecutiveDetections

SpecGroup == InitGroup /\ [][NextGroup]_vars

-----------------------------------------------------------------------------
(* SpecEvent: _create_cme_event on a drawn feature table, score series and  *)
(* group                                                                    *)

\* Rows around the classification thresholds: (velocity, proton_flux).
EventRowKinds ==
    { <<801, 2001>>, <<800, 2001>>, <<801, 2000>>, <<601, 1501>>,
      <<600, 1501>>, <<601, 1500>>, <<400, 1000>> }

\* A table whose row i has timestamp i and the velocity and flux of kinds[i].
EventTable(cols, kinds) ==
    Table(cols, [i \in 1..Len(kinds) |->
                    Row(i, kinds[i][1], kinds[i][2], 150000, 5)])

EventScores == {3000, 8000}

\* The non-empty ascending index lists over the rows 0..n-1.
GroupsOver(n) == { Ascending(S, n) : S \in (SUBSET (0..(n - 1))) \ {{}} }

EventInput(cols, kinds, scores, indices, u) ==
    [kind |-> "event", table |-> EventTable(cols, kinds), scores |-> scores,
     indices |-> indices, u |-> u]

InitEvent ==
    /\ InitDetector
    /\ thresholds = [k \in {} |-> 0]
    /\ disk = NoFile
    /\ \E n \in 1..MaxEventRows :
         \E cols \in {FullColumns, FullColumns \ {"velocity", "proton_flux"}} :
           \E kinds \in [1..n -> EventRowKinds] :
             \E scores \in [1..n -> EventScores] :
               \E indices \in GroupsOver(n) :
                 \E u \in USamples :
                   input = EventInput(cols, kinds, scores, indices, u)

CreateCmeEvent ==
    /\ call = NoCall
    /\ input.kind = "event"
    /\ ret' = create_cme_event(input.table, input.scores, input.indices, input.u)
    /\ call' = [op |-> "_create_cme_event"]
    /\ UNCHANGED <<stored_events, alerts_sent, thresholds, detector, train_count, disk, input, running>>

NextEvent == CreateCmeEvent

SpecEvent == InitEvent /\ [][NextEvent]_vars

-----------------------------------------------------------------------------
(* SpecSegment: the Event Segmenter given a feature table and a score       *)
(* series that need not have the table's length: _create_cme_event called   *)
(* on a group, and the segmentation of detect_cme_events (threshold, group, *)
(* one event per group) applied to the series.                              *)

\* Score series for a table of n rows: one entry short, aligned, one entry
\* long; each entry below or above the default confidence threshold.
SegmentScores(n) ==
    UNION { [1..m -> EventScores] : m \in {n - 1, n, n + 1} }

InitSegment ==
    /\ InitDetector
    /\ thresholds = [k \in {} |-> 0]
    /\ disk = NoFile
    /\ \E n \in 1..MaxEventRows :
         \E kinds \in [1..n -> {<<801, 2001>>, <<400, 1000>>}] :
           \E scores \in SegmentScores(n) :
             \E indices \in GroupsOver(n) :
               \E u \in USamples :
                 input = EventInput(FullColumns, kinds, scores, indices, u)

\* Lines 186-200 of detect_cme_events with final_scores = input.scores.
SegmentScoreSeries ==
    /\ call = NoCall
    /\ input.kind = "event"
    /\ LET confidence_threshold ==
               Get(thresholds, "confidence_threshold", DefaultConfidenceThreshold)
           cme_mask == [i \in 1..Len(input.scores) |->
                           input.scores[i] > confidence_threshold]
       IN  ret' = extract_events(input.table, input.scores, cme_mask,
                                 [g \in 1..MaxGroups(Len(cme_mask)) |-> input.u],
                                 FALSE, <<>>)
    /\ call' = [op |-> "segment"]
    /\ UNCHANGED <<stored_events, alerts_sent, thresholds, detector, train_count, disk, input, running>>

NextSegment ==
    \/ CreateCmeEvent
    \/ SegmentScoreSeries

SpecSegment == InitSegment /\ [][NextSegment]_vars

-----------------------------------------------------------------------------
(* SpecScenario: detect_cme_events by an Untrained Detector on a batch      *)
(* at 30-second cadence, quiet but for one window of consecutive rows with  *)
(* raised proton flux and velocity.                                         *)

\* Seconds between two rows of the batch: freq='30S'.
CadenceSeconds == 30

\* The row at position i (0-based): inside the spike window proton flux is
\* 3 * 1000 and velocity is spike_velocity; outside, 1000 and 400.
ScenarioRow(i, first, spike_velocity) ==
    IF first <= i /\ i < first + SpikeRows
    THEN Row(i * CadenceSeconds * TicksPerSecond, spike_velocity, 3000, 150000, 5)
    ELSE Row(i * CadenceSeconds * TicksPerSecond, 400, 1000, 150000, 5)

ScenarioTable(first, spike_velocity) ==
    Table(RawColumns,
          [k \in 1..ScenarioRows |-> ScenarioRow(k - 1, first, spike_velocity)])

\* Velocity in the spike window: 1.5 * 400, one above, and well above.
SpikeVelocities == {600, 601, 801}

InitScenario ==
    /\ InitDetector
    /\ thresholds = [k \in {} |-> 0]
    /\ disk = NoFile
    /\ \E first \in 0..(ScenarioRows - SpikeRows) :
         \E spike_velocity \in SpikeVelocities :
           \E u \in USamples :
             input = [kind |-> "scenario", first |-> first,
                      spike_velocity |-> spike_velocity,
                      table |-> ScenarioTable(first, spike_velocity),
                      ml |-> <<>>,
                      us |-> [g \in 1..MaxGroups(ScenarioRows) |-> u]]

NextScenario == DetectBatch

SpecScenario == InitScenario /\ [][NextScenario]_vars

-----------------------------------------------------------------------------
(* SpecFetch: SWISIngestion.fetch_particle_data and                         *)
(* CACTUSIngestion.fetch_cme_events, which are the same loop, statement by  *)
(* statement.  running holds the loop variable, the position, and a record  *)
(* of the attempts made and the waits taken; ret keeps that record when the *)
(* call has returned.  What the server does at each attempt is drawn when   *)
(* the attempt is made: it answers 200 with a JSON body, answers 200 with a *)
(* body response.json() cannot decode, answers another status, or the       *)
(* request times out or fails.                                              *)

AttemptKinds == {"json_200", "undecodable_200", "non_200", "timeout", "error"}

\* The JSON bodies a 200 answer may carry.
Payloads == {<<>>, <<"a">>, <<"a", "b">>}

NotJson == <<"not json">>

Answer(kind, payload) ==
    [kind |-> kind, status |-> IF kind \in {"json_200", "undecodable_200"} THEN 200
                               ELSE IF kind = "non_200" THEN 500 ELSE 0,
     payload |-> IF kind = "json_200" THEN payload ELSE NotJson]

\* The wait after every failed attempt, the last included.
backoff_due_after_last(attempt, retry_attempts) == attempt < retry_attempts

\* if attempt < self.retry_attempts - 1
backoff_due(attempt, retry_attempts) == attempt < retry_attempts - 1

\* 2 ** attempt
backoff(attempt) == 2 ^ attempt

Fetching(attempt, pc, answers, sleeps) ==
    [op |-> input.op, attempt |-> attempt, pc |-> pc, answers |-> answers,
     sleeps |-> sleeps]

FetchReturns(status, data) ==
    /\ ret' = [status |-> status, data |-> data, answers |-> running.answers,
               sleeps |-> running.sleeps]
    /\ running' = NotRunning

InitFetch ==
    /\ InitDetector
    /\ thresholds = [k \in {} |-> 0]
    /\ disk = NoFile
    /\ \E op \in {"fetch_particle_data", "fetch_cme_events"} :
         \E retry_attempts \in 0..MaxRetryAttempts :
           \E session \in BOOLEAN :
             input = [kind |-> "fetch", op |-> op,
                      retry_attempts |-> retry_attempts, session |-> session]

\* The call: the session check, and the entry into the loop.
FetchBegin ==
    /\ call = NoCall
    /\ input.kind = "fetch"
    /\ call' = [op |-> input.op]
    /\ IF ~input.session
       THEN /\ ret' = [status |-> "RuntimeError", data |-> <<>>,
                       answers |-> <<>>, sleeps |-> <<>>]
            /\ UNCHANGED running
       ELSE /\ running' = Fetching(0, IF 0 < input.retry_attempts THEN "get"
                                      ELSE "exhausted", <<>>, <<>>)
            /\ UNCHANGED ret
    /\ UNCHANGED <<stored_events, alerts_sent, thresholds, detector, train_count, disk, input>>

\* One pass of the try block: the request, and the answer's handling.
FetchAttempt(kind, payload) ==
    /\ running.op = input.op
    /\ running.pc = "get"
    /\ LET answers == Append(running.answers, Answer(kind, payload))
           made == [running EXCEPT !.answers = answers]
       IN  IF kind = "json_200"
           THEN /\ ret' = [status |-> "ok", data |-> payload,
                           answers |-> answers, sleeps |-> running.sleeps]
                /\ running' = NotRunning
           ELSE /\ running' =
                      IF backoff_due(running.attempt, input.retry_attempts)
                      THEN [made EXCEPT !.pc = "sleep"]
                      ELSE IF running.attempt + 1 < input.retry_attempts
                      THEN [made EXCEPT !.pc = "get", !.attempt = @ + 1]
                      ELSE [made EXCEPT !.pc = "exhausted"]
                /\ UNCHANGED ret
    /\ UNCHANGED <<stored_events, alerts_sent, thresholds, detector, train_count, disk, input, call>>

\* await asyncio.sleep(2 ** attempt), and the next pass of the loop.
FetchSleep ==
    /\ running.op = input.op
    /\ running.pc = "sleep"
    /\ running' =
          [running EXCEPT
              !.sleeps = Append(@, backoff(running.attempt)),
              !.attempt = @ + 1,
              !.pc = IF running.attempt + 1 < input.retry_attempts
                     THEN "get" ELSE "exhausted"]
    /\ UNCHANGED <<stored_events, alerts_sent, thresholds, detector, train_count, disk, input, call, ret>>

\* The statements after the loop: return [].
FetchExhausted ==
    /\ running.op = input.op
    /\ running.pc = "exhausted"
    /\ FetchReturns("ok", <<>>)
    /\ UNCHANGED <<stored_events, alerts_sent, thresholds, detector, train_count, disk, input, call>>

NextFetch ==
    \/ FetchBegin
    \/ \E kind \in AttemptKinds : \E payload \in Payloads :
          FetchAttempt(kind, payload)
    \/ FetchSleep
    \/ FetchExhausted

\* The event loop runs the coroutine on; a request ends by its answer or by
\* the session's total timeout, and a sleep ends.
SpecFetch == InitFetch /\ [][NextFetch]_vars /\ WF_vars(NextFetch)

-----------------------------------------------------------------------------
(* SpecCycle: the detection task of the API (run_cme_detection): cycle      *)
(* after cycle it reads a window of the particle_data table, runs           *)
(* detect_cme_events on it and hands every event to                         *)
(* process_detected_event.  The Detector is the process-wide one; a         *)
(* retraining may train it between two cycles.                              *)

\* The row of the cme_events table made from an event.
CMEEvent(event) ==
    [external_id |-> event.id, timestamp |-> event.timestamp,
     event_type |-> event.type, confidence |-> event.confidence]

Processed(status, stored, alerts) ==
    [status |-> status, stored |-> stored, alerts |-> alerts]

\* process_detected_event without the look-up of the event's id.
process_detected_event_unchecked(stored, alerts, event, commit_fails) ==
    IF commit_fails
    THEN Processed("SQLAlchemyError", stored, alerts)
    ELSE Processed("ok", Append(stored, CMEEvent(event)),
                   IF event.confidence > AlertConfidence
                   THEN Append(alerts, event) ELSE alerts)

\* process_detected_event with the alert sent for confidence >= 0.8.
process_detected_event_inclusive(stored, alerts, event, commit_fails) ==
    IF \E k \in 1..Len(stored) : stored[k].external_id = event.id
    THEN Processed("ok", stored, alerts)
    ELSE IF commit_fails
    THEN Processed("SQLAlchemyError", stored, alerts)
    ELSE Processed("ok", Append(stored, CMEEvent(event)),
                   IF event.confidence >= AlertConfidence
                   THEN Append(alerts, event) ELSE alerts)

\* process_detected_event: nothing when a row with the event's id exists;
\* otherwise the row is added and committed, and then the alert is sent when
\* the confidence is above 0.8.  A commit that raises leaves no row.
process_detected_event(stored, alerts, event, commit_fails) ==
    IF \E k \in 1..Len(stored) : stored[k].external_id = event.id
    THEN Processed("ok", stored, alerts)              \* event already exists
    ELSE IF commit_fails
    THEN Processed("SQLAlchemyError", stored, alerts)
    ELSE Processed("ok", Append(stored, CMEEvent(event)),
                   IF event.confidence > AlertConfidence
                   THEN Append(alerts, event) ELSE alerts)

\* for event in events: await process_detected_event(event, session); the
\* exception of a commit ends the loop (it is caught and logged by the
\* cycle).  failing is the position of the event whose commit raises, 0 for
\* none.
RECURSIVE ProcessEvents(_, _, _, _, _)
ProcessEvents(events, k, stored, alerts, failing) ==
    IF k > Len(events) THEN Processed("ok", stored, alerts)
    ELSE LET done == process_detected_event(stored, alerts, events[k], k = failing)
         IN  IF done.status # "ok" THEN done
             ELSE ProcessEvents(events, k + 1, done.stored, done.alerts, failing)

\* The particle_data table, one row every half second: two rows above every
\* rule threshold and one above the velocity and flux thresholds only, the
\* first two within one second and the last more than DefaultMaxGap rows
\* after them; the rows between are quiet.
CycleRows == DefaultMaxGap + 3

particle_data ==
    [i \in 1..CycleRows |->
        IF i \in {1, CycleRows} THEN Row(i - 1, 801, 2001, 250000, 12)
        ELSE IF i = 2 THEN Row(i - 1, 801, 2001, 150000, 5)
        ELSE Row(i - 1, 400, 1000, 150000, 5)]

\* The rows a cycle's query returns: those from position lo to position hi
\* (none when lo > hi), in timestamp order.
CycleWindows == { <<lo, hi>> : lo \in {1, 2}, hi \in {0, 2, CycleRows} }

\* One cycle of run_cme_detection.
RunCmeDetection(lo, hi, p, failing) ==
    /\ IF lo > hi
       THEN /\ ret' = [status |-> "no data"]              \* if particle_data:
            /\ call' = [op |-> "run_cme_detection"]
            /\ UNCHANGED <<stored_events, alerts_sent>>
       ELSE LET df == Table(RawColumns, SubSeq(particle_data, lo, hi))
                ml == [i \in 1..Len(df.rows) |-> p]
                detection == detect_cme_events(Self, thresholds, df, ml,
                                               LifecycleDraw(df))
                events == detection.events
                done == IF detection.status = "ok"
                        THEN ProcessEvents(events, 1, stored_events, alerts_sent,
                                           failing)
                        ELSE Processed(detection.status, stored_events, alerts_sent)
            IN  /\ stored_events' = done.stored
                /\ alerts_sent' = done.alerts
                /\ ret' = [status |-> done.status]
                /\ call' = [op |-> "run_cme_detection"]
    /\ UNCHANGED <<thresholds, detector, train_count, disk, input, running>>

InitCycle ==
    /\ InitDetector
    /\ thresholds \in ThresholdConfigs
    /\ disk = NoFile
    /\ input = NoInput

NextCycle ==
    \/ TrainOnce
    \/ \E w \in CycleWindows : \E p \in {0, 8000, Unit} : \E failing \in {0, 1} :
          RunCmeDetection(w[1], w[2], p, failing)

SpecCycle == InitCycle /\ [][NextCycle]_vars

-----------------------------------------------------------------------------
(* SpecPredict: predict_cme_probability on a drawn batch of model outputs,  *)
(* by a Detector that is untrained or was trained once                      *)

\* Rows of a batch given to predict_cme_probability.
MaxPredictRows == 2

\* decision_function outputs, in units of 1e-6: -0.1, 0 and 0.000001.
DecisionScores == {-100000, 0, 1}

\* predict_proba(X)[:, 1] outputs.
ClassProbabilities == {0, Unit}

InitPredict ==
    /\ InitDetector
    /\ thresholds = [k \in {} |-> 0]
    /\ disk = NoFile
    /\ \E n \in 1..MaxPredictRows :
       \E decision_if \in [1..n -> DecisionScores] :
       \E decision_svm \in [1..n -> DecisionScores] :
       \E proba \in [1..n -> ClassProbabilities] :
          input = [kind |-> "predict",
                   table |-> DetectTable(FullColumns,
                                         [i \in 1..n |-> <<400, 1000, 150000, 5>>],
                                         FALSE),
                   decision_if |-> decision_if,
                   decision_svm |-> decision_svm,
                   proba |-> proba]

\* predict_cme_probability on the batch: each model answers with its drawn
\* output, and the ensemble is computed from the answers.
PredictBatch ==
    LET predictions == model_predictions(input.decision_if, input.decision_svm,
                                         input.proba)
        predicted == predict_cme_probability(Self, input.table,
                                             ensemble_prob(predictions))
    IN  /\ ret' = [status |-> predicted.status, scores |-> predicted.scores,
                   predictions |-> IF predicted.status = "ok" THEN predictions
                                   ELSE <<>>]
        /\ call' = [op |-> "predict_cme_probability", table |-> input.table,
                    decision_if |-> input.decision_if,
                    decision_svm |-> input.decision_svm]
        /\ UNCHANGED <<stored_events, alerts_sent, thresholds, detector, train_count, disk, input, running>>

NextPredict ==
    \/ TrainOnce
    \/ PredictBatch

SpecPredict == InitPredict /\ [][NextPredict]_vars

-----------------------------------------------------------------------------
(* SpecRules: apply_threshold_rules on a drawn feature table and            *)
(* probability vector                                                       *)

\* Rows at and just above the four default thresholds.
RuleRowKinds ==
    { Row(0, v, f, t, m) :
        v \in {500, 501}, f \in {1200, 1201},
        t \in {200000, 200001}, m \in {10, 11} }

RuleColumnSets ==
    { FullColumns,
      FullColumns \ {"velocity", "temperature"},
      FullColumns \ {"proton_flux", "magnetic_field_magnitude"} }

\* Entries of ml_probabilities: below 0, inside [0, 1], above 1.
RuleMlSamples == {-5000, 5000, 15000}

InitRules ==
    /\ InitDetector
    /\ thresholds \in ThresholdConfigs
    /\ disk = NoFile
    /\ \E n \in 0..MaxRuleRows :
         \E cols \in RuleColumnSets :
           \E rows \in [1..n -> RuleRowKinds] :
             \E ml \in [1..n -> RuleMlSamples] :
               input = [kind |-> "rules", table |-> Table(cols, rows), ml |-> ml]

ApplyThresholdRules ==
    /\ call = NoCall
    /\ input.kind = "rules"
    /\ ret' = [status |-> "ok",
               rule_scores |-> rule_based_scores(input.table, thresholds),
               scores |-> apply_threshold_rules(input.table, input.ml, thresholds)]
    /\ call' = [op |-> "apply_threshold_rules"]
    /\ UNCHANGED <<stored_events, alerts_sent, thresholds, detector, train_count, disk, input, running>>

NextRules == ApplyThresholdRules

SpecRules == InitRules /\ [][NextRules]_vars

-----------------------------------------------------------------------------
(* Properties of the Detector's life, under Spec *)

\* C1 as stated: the Detector starts Untrained, and train_models is the only
\* operation that moves it to Trained or changes its trained model state
\* (scaler, models, feature column list, trained flag).
C1_OnlyTrainingChangesModelState ==
    /\ ~is_trained
    /\ [][detector' # detector => call'.op = "train_models"]_vars

\* C1 amended: the Detector starts Untrained, and the only operations that
\* move it to Trained or change its trained model state are train_models and
\* load_models; prediction, detection and saving leave it as it is.
C1_OnlyTrainingOrLoadingChangesModelState ==
    /\ ~is_trained
    /\ [][detector' # detector => call'.op \in {"train_models", "load_models"}]_vars

\* A Detector that became Trained by loading an artifact, never having trained.
C1_Witness ==
    /\ call.op = "load_models"
    /\ ret.status = "ok"
    /\ is_trained
    /\ train_count = 0

\* C2: once the Detector is Trained it stays Trained, whatever is called next,
\* a failing retrain included.
C2_TrainedStaysTrained == [][is_trained => is_trained']_vars

\* A Trained Detector right after a retrain that raised.
C2_Witness ==
    /\ call.op = "train_models"
    /\ ret.status # "ok"
    /\ train_count > 1
    /\ is_trained

\* C3: predict_cme_probability on an Untrained Detector fails and gives no
\* scores; called right after a train_models that succeeded, on the table
\* that was trained on, it succeeds with one score per row.
C3_PredictFailsUntrainedSucceedsAfterTraining ==
    [][call'.op = "predict_cme_probability" =>
         /\ ~is_trained => (ret'.status # "ok" /\ ret'.scores = <<>>)
         /\ (call.op = "train_models" /\ ret.status = "ok"
                /\ call'.table = call.table)
              => (ret'.status = "ok"
                    /\ Len(ret'.scores) = Len(call'.table.rows))]_vars

-----------------------------------------------------------------------------
(* Properties of _group_consecutive_detections, under SpecGroup *)

RECURSIVE Concatenation(_)
Concatenation(groups) ==
    IF groups = <<>> THEN <<>>
    ELSE Head(groups) \o Concatenation(Tail(groups))

\* C6: for a strictly increasing index array and any max_gap the groups are
\* the maximal runs: in order they concatenate to the input, none is empty,
\* neighbours inside a group are at most max_gap apart, the last index of a
\* group and the first of the next are more than max_gap apart, and an empty
\* input gives no groups.
C6_GroupsAreMaximalRuns ==
    call.op = "_group_consecutive_detections" =>
        LET g == ret.groups
        IN  /\ Concatenation(g) = input.indices
            /\ \A k \in 1..Len(g) : g[k] # <<>>
            /\ \A k \in 1..Len(g) : \A j \in 1..(Len(g[k]) - 1) :
                   g[k][j + 1] - g[k][j] <= input.max_gap
            /\ \A k \in 1..(Len(g) - 1) :
                   g[k + 1][1] - g[k][Len(g[k])] > input.max_gap
            /\ (input.indices = <<>> => g = <<>>)

\* The grouping of [1, 2, 3, 5, 6, 10] with max_gap 1 into [1,2,3], [5,6], [10].
C6_Witness ==
    /\ call.op = "_group_consecutive_detections"
    /\ input.indices = <<1, 2, 3, 5, 6, 10>>
    /\ input.max_gap = 1
    /\ ret.groups = << <<1, 2, 3>>, <<5, 6>>, <<10>> >>

-----------------------------------------------------------------------------
(* Properties of apply_threshold_rules, under SpecRules *)

\* C5: whatever the feature table, the thresholds and the ML probability
\* vector, apply_threshold_rules returns one score per feature row and every
\* score lies in [0, 1].
C5_OneScorePerRowInUnitInterval ==
    call.op = "apply_threshold_rules" =>
        /\ Len(ret.scores) = Len(input.table.rows)
        /\ \A i \in 1..Len(ret.scores) : 0 <= ret.scores[i] /\ ret.scores[i] <= Unit

\* A weighted sum above 1 returned as 1 beside a weighted sum below 0
\* returned as 0.
C5_Witness ==
    /\ call.op = "apply_threshold_rules"
    /\ Len(ret.scores) = 2
    /\ input.ml[1] > Unit /\ ret.scores[1] = Unit
    /\ input.ml[2] < 0 /\ ret.scores[2] = 0

\* The configured threshold of a rule, or its default.
RuleThreshold(key) ==
    IF key \in DOMAIN thresholds THEN thresholds[key]
    ELSE CASE key = "velocity_threshold" -> 500
           [] key = "flux_threshold" -> 1200
           [] key = "temperature_threshold" -> 200000
           [] key = "magnetic_field_threshold" -> 10

\* Whether row i of the drawn table has the column and exceeds its threshold.
Exceeds(i, col, key) ==
    /\ col \in input.table.cols
    /\ input.table.rows[i][col] > RuleThreshold(key)

Term(i, col, key, weight) == IF Exceeds(i, col, key) THEN weight ELSE 0

\* C9: the rule score of a row is 0.3 for velocity above its threshold, plus
\* 0.3 for proton flux, 0.2 for temperature and 0.2 for magnetic field
\* magnitude, each strictly above; all four give 1.0, none gives 0, and an
\* absent column gives 0 for its term without raising.
C9_RuleScoreIsWeightedSum ==
    call.op = "apply_threshold_rules" =>
        /\ ret.status = "ok"
        /\ Len(ret.rule_scores) = Len(input.table.rows)
        /\ \A i \in 1..Len(input.table.rows) :
              /\ ret.rule_scores[i] =
                    Term(i, "velocity", "velocity_threshold", 3000)
                    + Term(i, "proton_flux", "flux_threshold", 3000)
                    + Term(i, "temperature", "temperature_threshold", 2000)
                    + Term(i, "magnetic_field_magnitude",
                           "magnetic_field_threshold", 2000)
              /\ (/\ Exceeds(i, "velocity", "velocity_threshold")
                  /\ Exceeds(i, "proton_flux", "flux_threshold")
                  /\ Exceeds(i, "temperature", "temperature_threshold")
                  /\ Exceeds(i, "magnetic_field_magnitude",
                             "magnetic_field_threshold"))
                    => ret.rule_scores[i] = Unit
              /\ (/\ ~Exceeds(i, "velocity", "velocity_threshold")
                  /\ ~Exceeds(i, "proton_flux", "flux_threshold")
                  /\ ~Exceeds(i, "temperature", "temperature_threshold")
                  /\ ~Exceeds(i, "magnetic_field_magnitude",
                              "magnetic_field_threshold"))
                    => ret.rule_scores[i] = 0

\* One table holding a row above all four thresholds (score 1.0) and a row
\* exactly at the four thresholds (score 0); and a table without the velocity
\* column whose row is above the velocity threshold.
C9_Witness ==
    /\ call.op = "apply_threshold_rules"
    /\ Len(ret.rule_scores) = 2
    /\ \/ /\ ret.rule_scores[1] = Unit
          /\ ret.rule_scores[2] = 0
          /\ input.table.rows[2].velocity = 500
          /\ thresholds = [k \in {} |-> 0]
       \/ /\ "velocity" \notin input.table.cols
          /\ input.table.rows[1].velocity = 501
          /\ input.table.rows[1].proton_flux = 1201
          /\ ret.rule_scores[1] = 3000

-----------------------------------------------------------------------------
(* Properties of _create_cme_event, under SpecEvent *)

\* C7: the peak is a member of the group, its score is the largest in the
\* group, among the members with that score it has the lowest index, and the
\* event's confidence is the score at the peak.
C7_PeakIsFirstMaximum ==
    call.op = "_create_cme_event" =>
        /\ ret.status = "ok"
        /\ \E k \in 1..Len(input.indices) : input.indices[k] = ret.peak_idx
        /\ \A k \in 1..Len(input.indices) :
              /\ input.scores[input.indices[k] + 1] <= input.scores[ret.peak_idx + 1]
              /\ input.scores[input.indices[k] + 1] = input.scores[ret.peak_idx + 1]
                    => ret.peak_idx <= input.indices[k]
        /\ ret.event.confidence = input.scores[ret.peak_idx + 1]

\* A group of two rows with the same score, where the peak is the first; and
\* a group whose second row scores higher, where the peak is the second.
C7_Witness ==
    /\ call.op = "_create_cme_event"
    /\ input.indices = <<0, 1>>
    /\ \/ input.scores = <<8000, 8000>> /\ ret.peak_idx = 0
       \/ input.scores = <<3000, 8000>> /\ ret.peak_idx = 1

\* The row the event was made from.
PeakRow == input.table.rows[ret.peak_idx + 1]

\* C8: the peak row alone decides the type: velocity > 800 and proton flux >
\* 2000 give halo with width 360; otherwise velocity > 600 and proton flux >
\* 1500 give partial_halo with width in [120, 359); otherwise non_halo with
\* width in [20, 119).  The type is one of the three, and a value exactly on
\* a boundary falls into the lower class.
C8_TypeFromPeakRow ==
    call.op = "_create_cme_event" =>
        /\ ret.status = "ok"
        /\ ret.event.type \in {"halo", "partial_halo", "non_halo"}
        /\ ret.event.type = "halo" => ret.event.width = 360 * 1000
        /\ ret.event.type = "partial_halo" =>
              (120 * 1000 <= ret.event.width /\ ret.event.width < 359 * 1000)
        /\ ret.event.type = "non_halo" =>
              (20 * 1000 <= ret.event.width /\ ret.event.width < 119 * 1000)
        /\ {"velocity", "proton_flux"} \subseteq input.table.cols =>
              LET v == PeakRow.velocity
                  f == PeakRow.proton_flux
              IN  /\ ret.event.type = "halo" <=> (v > 800 /\ f > 2000)
                  /\ ret.event.type = "partial_halo" <=>
                        (~(v > 800 /\ f > 2000) /\ v > 600 /\ f > 1500)
                  /\ (v = 800 \/ f = 2000) => ret.event.type # "halo"
                  /\ (v = 600 \/ f = 1500) => ret.event.type = "non_halo"

\* An event whose peak row has velocity exactly 800 with flux above 2000: a
\* partial_halo.
C8_Witness ==
    /\ call.op = "_create_cme_event"
    /\ ret.status = "ok"
    /\ {"velocity", "proton_flux"} \subseteq input.table.cols
    /\ PeakRow.velocity = 800
    /\ PeakRow.proton_flux = 2001
    /\ ret.event.type = "partial_halo"
    /\ ret.event.width > 120 * 1000

-----------------------------------------------------------------------------
(* Properties of detect_cme_events, under SpecDetect *)

\* The configured velocity, flux and confidence thresholds, or their defaults.
VelocityThreshold ==
    IF "velocity_threshold" \in DOMAIN thresholds
    THEN thresholds["velocity_threshold"] ELSE 500

FluxThreshold ==
    IF "flux_threshold" \in DOMAIN thresholds
    THEN thresholds["flux_threshold"] ELSE 1200

ConfidenceThreshold ==
    IF "confidence_threshold" \in DOMAIN thresholds
    THEN thresholds["confidence_threshold"] ELSE 7000

\* A row of the batch with velocity and proton flux both strictly above their
\* thresholds.
Qualifies(row) ==
    row.velocity > VelocityThreshold /\ row.proton_flux > FluxThreshold

QualifyingRows ==
    {i \in 1..Len(call.table.rows) : Qualifies(call.table.rows[i])}

C10_TrainedScoreAndSelection ==
    (/\ call.op = "detect_cme_events"
     /\ is_trained
     /\ ret.status = "ok") =>
        /\ Len(ret.scores) = Len(call.table.rows)
        /\ \A i \in 1..Len(ret.scores) :
              LET sum == (7 * call.ml[i] + 3 * ret.rule_scores[i]) \div 10
              IN  ret.scores[i] =
                     IF sum < 0 THEN 0 ELSE IF sum > Unit THEN Unit ELSE sum
        /\ \A i \in 1..Len(ret.scores) :
              (ret.scores[i] > ConfidenceThreshold)
                 <=> (\E k \in 1..Len(ret.selected) : ret.selected[k] = i - 1)
        /\ \A k \in 1..(Len(ret.selected) - 1) :
              ret.selected[k] < ret.selected[k + 1]

\* A trained detection where one row scores exactly the confidence threshold
\* and is left out, and the other scores above it and is selected.
C10_Witness ==
    /\ call.op = "detect_cme_events"
    /\ is_trained
    /\ ret.status = "ok"
    /\ Len(ret.scores) = 2
    /\ ret.scores[1] = ConfidenceThreshold
    /\ ret.rule_scores[2] > 0
    /\ ret.scores[2] > ConfidenceThreshold
    /\ ret.selected = <<1>>

-----------------------------------------------------------------------------
(* Properties of prepare_training_data, under SpecPrepare *)

\* Whether a timestamp lies within 30 minutes, ends included, of some known
\* event of the input.
NearKnownEvent(timestamp) ==
    \E k \in 1..Len(input.cme_events) :
       /\ input.cme_events[k] - 30 * 60 * 2 <= timestamp
       /\ timestamp <= input.cme_events[k] + 30 * 60 * 2

\* C11: prepare_training_data on a batch with the required columns returns
\* the batch's rows in timestamp order and one label per row, where row i has
\* label 1 exactly when its timestamp is within 30 minutes (ends included) of
\* at least one known event, and 0 otherwise; with no known events every
\* label is 0.
C11_LabelsMarkEventWindows ==
    (/\ call.op = "prepare_training_data"
     /\ RequiredColumns \subseteq input.table.cols) =>
        /\ ret.status = "ok"
        /\ Len(ret.labels) = Len(input.table.rows)
        /\ Len(ret.table.rows) = Len(input.table.rows)
        /\ \A i \in 1..(Len(ret.table.rows) - 1) :
              ret.table.rows[i].timestamp <= ret.table.rows[i + 1].timestamp
        /\ \A r \in Range(input.table.rows) :
              Cardinality({i \in 1..Len(input.table.rows) :
                              /\ input.table.rows[i].timestamp = r.timestamp
                              /\ input.table.rows[i].velocity = r.velocity})
                 = Cardinality({i \in 1..Len(ret.table.rows) :
                                   /\ ret.table.rows[i].timestamp = r.timestamp
                                   /\ ret.table.rows[i].velocity = r.velocity})
        /\ \A i \in 1..Len(ret.labels) :
              ret.labels[i] = IF NearKnownEvent(ret.table.rows[i].timestamp)
                              THEN 1 ELSE 0
        /\ input.cme_events = <<>> => \A i \in 1..Len(ret.labels) : ret.labels[i] = 0

\* A batch given latest row first: after sorting, the first row lies exactly
\* 30 minutes before the first known event and is labelled 1, the second lies
\* one tick after the end of the last window and is labelled 0.
C11_Witness ==
    /\ call.op = "prepare_training_data"
    /\ ret.status = "ok"
    /\ Len(input.cme_events) = 2
    /\ input.cme_events[1] # input.cme_events[2]
    /\ Len(input.table.rows) = 2
    /\ input.table.rows[1].timestamp = 3 * WindowTicks + 2
    /\ input.table.rows[2].timestamp = 0
    /\ ret.labels = <<1, 0>>

-----------------------------------------------------------------------------
(* Properties of training and prediction failures, under Spec *)

\* Every row labelled 1.
AllOnes(labels) == labels # <<>> /\ \A i \in 1..Len(labels) : labels[i] = 1

\* C12: a train_models call on a new Detector with every row labelled 1
\* returns normally, leaves both novelty detectors unfitted and the Detector
\* Trained; and a predict_cme_probability that follows it on the same table
\* succeeds with one score per row.
C12_AllOnesTrainingStillPredicts ==
    [][/\ (/\ call'.op = "train_models"
           /\ train_count = 0 /\ ~is_trained
           /\ AllOnes(call'.labels)
           /\ ret'.status = "ok")
          => (/\ ~models'["isolation_forest"].fitted
              /\ ~models'["svm"].fitted
              /\ is_trained')
       /\ (/\ call.op = "train_models"
           /\ AllOnes(call.labels)
           /\ ret.status = "ok"
           /\ call'.op = "predict_cme_probability"
           /\ call'.table = call.table)
          => (/\ ret'.status = "ok"
              /\ Len(ret'.scores) = Len(call'.table.rows))]_vars


\* C13: a train_models call that fails leaves the scaler, the models, the
\* feature column list and the trained flag as they were, and fails with
\* ConfigurationError when the table has none of the importance columns; a
\* predict_cme_probability call that fails leaves them as they were too.
C13_FailuresLeaveModelStateUntouched ==
    [][/\ (call'.op = "train_models" /\ ret'.status # "ok")
          => detector' = detector
       /\ (/\ call'.op = "train_models"
           /\ call'.table.cols \cap Range(get_feature_importance_columns) = {})
          => ret'.status = "ConfigurationError"
       /\ (call'.op = "predict_cme_probability" /\ ret'.status # "ok")
          => detector' = detector]_vars


\* The importance columns a table has.
ImportanceColumnsOf(t) == t.cols \cap Range(get_feature_importance_columns)

\* C14: the column list train_models records is the set of columns the scaler
\* and the models were fitted on; and after a training on a table with
\* importance columns A (both classes among the labels), a prediction on a
\* table with a non-empty proper subset of A succeeds with one score per row.
C14_PredictionToleratesMissingColumns ==
    [][/\ (call'.op = "train_models" /\ ret'.status = "ok")
          => (/\ Range(feature_columns') = ImportanceColumnsOf(call'.table)
              /\ Len(feature_columns') = scaler'.n_features)
       /\ (/\ call.op = "train_models"
           /\ ret.status = "ok"
           /\ Range(call.labels) = {0, 1}
           /\ call'.op = "predict_cme_probability"
           /\ ImportanceColumnsOf(call'.table) # {}
           /\ ImportanceColumnsOf(call'.table) \subseteq ImportanceColumnsOf(call.table)
           /\ ImportanceColumnsOf(call'.table) # ImportanceColumnsOf(call.table))
          => (/\ ret'.status = "ok"
              /\ Len(ret'.scores) = Len(call'.table.rows))]_vars

-----------------------------------------------------------------------------
(* Properties of overlapping operations, under SpecOverlap *)

\* The statements of train_models, taken one by one, end in the state and
\* the outcome train_models gives as one step.
TrainStepsAgreeWithTrainModels ==
    [][(running.op = "train_models" /\ running'.op = "none")
          => LET done == train_models(running.entry, running.table,
                                      running.labels, running.id)
             IN  Self' = done.self /\ ret'.status = done.status]_vars

\* C15: a prediction that runs while a training is under way reads either
\* the Detector as it was before the training began or the Detector as the
\* training leaves it, all four of scaler, models, feature column list and
\* trained flag together.
C15_PredictionSeesOldOrNewState ==
    [][(call'.op = "predict_cme_probability" /\ running.op = "train_models")
          => \/ Self = running.entry
             \/ Self = train_models(running.entry, running.table,
                                    running.labels, running.id).self]_vars

-----------------------------------------------------------------------------
(* Properties of save_models and load_models, under SpecPersist *)

\* The steps of save_models end in the file and the outcome save_models
\* gives as one step.
SaveStepsAgreeWithSaveModels ==
    [][(/\ running.op = "save_models"
        /\ running'.op = "none"
        /\ ret'.status # "interrupted")
          => LET done == save_models(running.entry, running.previous)
             IN  disk' = done.file /\ ret'.status = done.status]_vars

\* C16: a loader never finds a partly written artifact at the path, neither
\* during a save nor after one that was cut short nor when an earlier
\* artifact is overwritten: whenever the file exists, load_models succeeds
\* and reads a complete artifact.
C16_LoaderNeverReadsPartialArtifact ==
    (call.op = "load_models" /\ "fresh" \in DOMAIN call) =>
        /\ ~disk.partial
        /\ disk.exists => (ret.status = "ok" /\ model_data(ret.self) = disk)


\* C17: a new Detector that loads the artifact a Trained Detector d has just
\* saved is Trained and has d's feature column list, scaler and models, and
\* gives d's prediction outcome on every batch; save_models on an Untrained
\* Detector fails and leaves the path as it was.
C17_LoadAfterSaveReproducesDetector ==
    [][/\ (/\ call.op = "save_models"
           /\ ret.status = "ok"
           /\ running = NotRunning
           /\ call'.op = "load_models")
          => (/\ ret'.status = "ok"
              /\ ret'.self.is_trained
              /\ ret'.self.feature_columns = feature_columns
              /\ ret'.self.scaler = scaler
              /\ ret'.self.models = models
              /\ \A t \in OverlapTables : \A ml \in MlFor(t) :
                    predict_cme_probability(ret'.self, t, ml)
                       = predict_cme_probability(Self, t, ml))
       /\ (/\ ~is_trained
           /\ running = NotRunning
           /\ call'.op = "save_models")
          => (ret'.status = "ValueError" /\ disk' = disk)]_vars

\* A Detector trained in this run, saved over an earlier artifact and loaded
\* by a new Detector, which then scores a batch as the saver does.
C17_Witness ==
    /\ call.op = "load_models"
    /\ ret.status = "ok"
    /\ train_count > 0
    /\ is_trained
    /\ disk = model_data(Self)
    /\ disk # EarlierArtifact
    /\ ret.self.is_trained
    /\ ret.self.scaler = scaler
    /\ \E t \in OverlapTables : \E ml \in MlFor(t) :
          /\ predict_cme_probability(ret.self, t, ml).status = "ok"
          /\ predict_cme_probability(Self, t, ml).scores = ml

-----------------------------------------------------------------------------
(* Properties of engineer_features, under SpecEngineer *)

\* C18: engineer_features, detect_cme_events, rule_based_detection and
\* prepare_training_data leave the caller's DataFrame as it was: the same
\* columns, column types, row order and values.
C18_CallerTableUntouched ==
    [][call'.op \in {"engineer_features", "detect_cme_events",
                     "rule_based_detection", "prepare_training_data"}
          => input'.frame = input.frame]_vars


\* The telemetry cells a row carries.
TelemetryColumns ==
    {"velocity", "proton_flux", "temperature", "magnetic_field_magnitude"}

\* Output row i comes from input row j: the same timestamp, and the same
\* cell wherever the input's cell is defined.
ComesFrom(out, in) ==
    /\ out.timestamp = in.timestamp
    /\ \A c \in TelemetryColumns : in[c] = NaN \/ out[c] = in[c]

DefinedBelow(c, i) ==
    {j \in (i + 1)..Len(ret.unfilled.rows) : ret.unfilled.rows[j][c] # NaN}

DefinedAbove(c, i) ==
    {j \in 1..(i - 1) : ret.unfilled.rows[j][c] # NaN}

Least(S) == CHOOSE j \in S : \A k \in S : j <= k

Greatest(S) == CHOOSE j \in S : \A k \in S : j >= k

\* C20: after the final pass no cell is missing; a cell that was defined
\* keeps its value, and a missing cell takes the next defined value below it
\* in its column, else the last defined value above it, else 0.
C20_NoMissingCellAfterFinalPass ==
    (call.op = "engineer_features" /\ ret.status = "ok") =>
        /\ Len(ret.unfilled.rows) = Len(ret.table.rows)
        /\ \A c \in ValueColumns : \A i \in 1..Len(ret.table.rows) :
              LET before == ret.unfilled.rows[i][c]
                  after == ret.table.rows[i][c]
              IN  /\ after # NaN
                  /\ after =
                       IF before # NaN THEN before
                       ELSE IF DefinedBelow(c, i) # {}
                       THEN ret.unfilled.rows[Least(DefinedBelow(c, i))][c]
                       ELSE IF DefinedAbove(c, i) # {}
                       THEN ret.unfilled.rows[Greatest(DefinedAbove(c, i))][c]
                       ELSE 0

\* Velocity 400, missing, 501 in timestamp order, with the proton flux
\* missing throughout: the missing velocity becomes 501, the one below it,
\* and the flux and the velocity differences, missing in every row, become 0.
C20_Witness ==
    /\ call.op = "engineer_features"
    /\ ret.status = "ok"
    /\ Len(ret.table.rows) = 3
    /\ ret.unfilled.rows[1].velocity = 400
    /\ ret.unfilled.rows[2].velocity = NaN
    /\ ret.unfilled.rows[3].velocity = 501
    /\ ret.table.rows[2].velocity = 501
    /\ ret.unfilled.rows[1].proton_flux = NaN
    /\ \A i \in 1..3 : ret.table.rows[i].proton_flux = 0
    /\ \A i \in 1..3 : ret.unfilled.rows[i].velocity_grad_1 = NaN
    /\ \A i \in 1..3 : ret.table.rows[i].velocity_grad_1 = 0

-----------------------------------------------------------------------------
(* Properties of the Event Segmenter on unaligned input, under SpecSegment *)

\* C21: event creation from a score series whose length differs from the
\* feature table's row count fails with InvalidInputError and produces no
\* event; and segmenting a series with no entry above the threshold returns
\* the empty event list without raising.
C21_LengthMismatchRaisesInvalidInput ==
    /\ (call.op \in {"_create_cme_event", "segment"}
          /\ Len(input.scores) # Len(input.table.rows)) =>
           ret.status = "InvalidInputError"
    /\ (call.op = "segment"
          /\ \A i \in 1..Len(input.scores) : input.scores[i] <= 7000) =>
           (ret.status = "ok" /\ ret.events = <<>>)

-----------------------------------------------------------------------------
(* Properties of the end-to-end scenario, under SpecScenario *)

\* C22 as stated: with baseline proton flux 1000 and velocity 400 and a spike
\* window of proton flux 3000 and velocity 600, detection with the default
\* thresholds returns at least one event whose peak row lies in the spike
\* window and whose type is partial_halo or halo.
C22_SpikeGivesHaloOrPartialHalo ==
    (call.op = "detect_cme_events" /\ input.spike_velocity = 600) =>
        /\ ret.status = "ok"
        /\ \E g \in 1..Len(ret.events) :
              /\ input.first * 30 * 2 <= ret.events[g].timestamp
              /\ ret.events[g].timestamp < (input.first + SpikeRows) * 30 * 2
              /\ ret.events[g].type \in {"partial_halo", "halo"}

\* C22 amended: in that scenario an Untrained Detector returns exactly one
\* event, its peak is the first row of the spike window, its confidence is
\* 0.8 and its type is non_halo, because velocity 600 is not strictly
\* greater than 600; the type is partial_halo when the spike velocity is 601
\* and halo when it is 801.
C22_SpikeGivesOneEventTypedByStrictThresholds ==
    call.op = "detect_cme_events" =>
        /\ ret.status = "ok"
        /\ Len(ret.events) = 1
        /\ ret.events[1].timestamp = input.first * 30 * 2
        /\ ret.events[1].velocity = input.spike_velocity
        /\ ret.events[1].confidence = 8000
        /\ input.spike_velocity = 600 => ret.events[1].type = "non_halo"
        /\ input.spike_velocity = 601 => ret.events[1].type = "partial_halo"
        /\ input.spike_velocity = 801 => ret.events[1].type = "halo"

\* The scenario with the spike window in the middle of the batch and spike
\* velocity 600: one event, typed non_halo.
C22_Witness ==
    /\ call.op = "detect_cme_events"
    /\ ~is_trained
    /\ input.kind = "scenario"
    /\ input.spike_velocity = 600
    /\ input.first = 10
    /\ Len(ret.selected) = SpikeRows
    /\ Len(ret.events) = 1
    /\ ret.events[1].type = "non_halo"

-----------------------------------------------------------------------------
(* Properties of inference on the trained model state, under Spec *)

\* C23: predict_cme_probability and detect_cme_events leave the trained
\* model state as it is: over any step that is one of these calls the scaler,
\* the models, the feature column list and the trained flag are unchanged,
\* whether the call returns or raises.
C23_InferenceLeavesModelStateUnchanged ==
    [][call'.op \in {"predict_cme_probability", "detect_cme_events"}
          => detector' = detector]_vars

\* A detection that returned on a Detector trained by the first train_models
\* call, whose scaler is still the one that call fitted.
C23_Witness ==
    /\ is_trained
    /\ call.op = "detect_cme_events"
    /\ ret.status = "ok"
    /\ ret.ensemble_called
    /\ scaler = Fitted(1, Len(get_feature_importance_columns), 0)
    /\ models["random_forest"].fit_id = 1

-----------------------------------------------------------------------------
(* Properties of the fetch loop, under SpecFetch *)

\* The call has returned or raised.
FetchReturned == call.op # "none" /\ running.op = "none"

\* The attempts made and the waits taken so far.
AnswersSoFar == IF running.op = "none" THEN ret.answers ELSE running.answers

SleepsSoFar == IF running.op = "none" THEN ret.sleeps ELSE running.sleeps

\* What holds of a fetch at every moment but for which attempt ends it: at
\* most retry_attempts attempts are made, the k-th wait is 2^(k-1) seconds
\* and follows the k-th attempt, no wait follows the last attempt of a call
\* that has returned, and a call made with a session returns normally.
FetchBoundedAndBackedOff ==
    call.op # "none" =>
        /\ Len(AnswersSoFar) <= input.retry_attempts
        /\ Len(SleepsSoFar) <= Len(AnswersSoFar)
        /\ \A k \in 1..Len(SleepsSoFar) : SleepsSoFar[k] = 2 ^ (k - 1)
        /\ FetchReturned =>
              /\ Len(ret.answers) > 0 => Len(ret.sleeps) = Len(ret.answers) - 1
              /\ input.session => ret.status = "ok"
              /\ ~input.session => ret.answers = <<>>

-----------------------------------------------------------------------------
(* Properties of the detection task, under SpecCycle *)

\* C25: over any sequence of detection cycles on overlapping windows, the
\* cme_events table holds at most one row per event id and at most one alert
\* is sent per event id; every alert is for an event stored by the same call,
\* with confidence strictly above 0.8; and a cycle neither stores nor alerts
\* an event whose id was stored before the cycle.
C25_OneRecordAndOneAlertPerEventId ==
    /\ [](/\ \A j, k \in 1..Len(stored_events) :
                stored_events[j].external_id = stored_events[k].external_id => j = k
          /\ \A j, k \in 1..Len(alerts_sent) :
                alerts_sent[j].id = alerts_sent[k].id => j = k
          /\ \A k \in 1..Len(alerts_sent) :
                /\ alerts_sent[k].confidence > 8000
                /\ \E j \in 1..Len(stored_events) :
                      stored_events[j] = CMEEvent(alerts_sent[k]))
    /\ [][/\ Len(stored_events') >= Len(stored_events)
          /\ SubSeq(stored_events', 1, Len(stored_events)) = stored_events
          /\ Len(alerts_sent') >= Len(alerts_sent)
          /\ SubSeq(alerts_sent', 1, Len(alerts_sent)) = alerts_sent
          /\ \A k \in (Len(alerts_sent) + 1)..Len(alerts_sent') :
                \A j \in 1..Len(stored_events) :
                   stored_events[j].external_id # alerts_sent'[k].id]_vars

\* An event stored without alert by a cycle of the Untrained Detector, and
\* after training a cycle on a window holding that event and a later one:
\* the first is not stored again, the second is stored and alerted.
C25_Witness ==
    /\ is_trained
    /\ call.op = "run_cme_detection"
    /\ Len(stored_events) = 2
    /\ stored_events[1].confidence = 8000
    /\ stored_events[1].timestamp = 0
    /\ stored_events[2].timestamp = CycleRows - 1
    /\ Len(alerts_sent) = 1
    /\ alerts_sent[1].id = stored_events[2].external_id
    /\ alerts_sent[1].confidence = Unit

\* C28: while the Detector is Untrained no detection cycle sends an alert:
\* every event such a cycle stores has confidence exactly 0.8, which is not
\* strictly greater than 0.8.
C28_UntrainedCyclesNeverAlert ==
    [][~is_trained =>
          /\ alerts_sent' = alerts_sent
          /\ \A k \in (Len(stored_events) + 1)..Len(stored_events') :
                stored_events'[k].confidence = 8000]_vars

\* Cycles of the Untrained Detector that stored two events, one per id, and
\* sent no alert.
C28_Witness ==
    /\ ~is_trained
    /\ call.op = "run_cme_detection"
    /\ ret.status = "ok"
    /\ Len(stored_events) = 2
    /\ stored_events[1].confidence = 8000
    /\ stored_events[2].confidence = 8000
    /\ alerts_sent = <<>>

-----------------------------------------------------------------------------
(* Properties of the events of a detection, under SpecDetect *)

\* C26: on a Trained Detector whose detection returns, there is exactly one
\* event per group of selected rows and the groups together are the selected
\* rows; every event's confidence is the largest score of its group, is
\* strictly greater than confidence_threshold and at most 1; and the events
\* are in strictly increasing order of peak row (of timestamp, the rows being
\* sorted by distinct timestamps).
C26_TrainedEventsAboveThresholdAndOrdered ==
    (/\ call.op = "detect_cme_events"
     /\ is_trained
     /\ ret.status = "ok") =>
        /\ Len(ret.events) = Len(ret.groups)
        /\ Concatenation(ret.groups) = ret.selected
        /\ \A g \in 1..Len(ret.events) :
              /\ ret.events[g].confidence > ConfidenceThreshold
              /\ ret.events[g].confidence <= Unit
              /\ \E k \in 1..Len(ret.groups[g]) :
                    ret.scores[ret.groups[g][k] + 1] = ret.events[g].confidence
              /\ \A k \in 1..Len(ret.groups[g]) :
                    ret.scores[ret.groups[g][k] + 1] <= ret.events[g].confidence
        /\ \A g \in 1..(Len(ret.events) - 1) :
              ret.events[g].timestamp < ret.events[g + 1].timestamp

\* A trained detection on the long batch that returns two events, the first
\* from its first row and the second from its last row.
C26_Witness ==
    /\ call.op = "detect_cme_events"
    /\ is_trained
    /\ ret.status = "ok"
    /\ ret.groups = <<(<<0>>), (<<LongRows - 1>>)>>
    /\ Len(ret.events) = 2
    /\ ret.events[1].timestamp < ret.events[2].timestamp
    /\ ret.events[1].confidence = Unit

\* The row of the batch that is at position r (0-based) once the batch is
\* sorted by timestamp; the batches drawn have distinct timestamps.
RowAtRank(t, r) ==
    CHOOSE row \in Range(t.rows) :
        Cardinality({x \in Range(t.rows) : x.timestamp < row.timestamp}) = r

\* C27: in untrained detection every event has confidence exactly 0.8, and
\* its timestamp, velocity, type and magnitude are those of the first row of
\* its group, the earliest row of the group that crossed both thresholds,
\* whatever the velocity and flux of the group's later rows.
C27_RuleOnlyEventsTakeFirstRowOfGroup ==
    (/\ call.op = "detect_cme_events"
     /\ ~is_trained
     /\ ret.status = "ok") =>
        /\ Len(ret.events) = Len(ret.groups)
        /\ \A g \in 1..Len(ret.events) :
              LET first == RowAtRank(call.table, ret.groups[g][1])
                  event == ret.events[g]
              IN  /\ event.confidence = 8000
                  /\ Qualifies(first)
                  /\ event.timestamp = first.timestamp
                  /\ event.velocity = first.velocity
                  /\ event.type =
                        IF first.velocity > 800 /\ first.proton_flux > 2000
                        THEN "halo"
                        ELSE IF first.velocity > 600 /\ first.proton_flux > 1500
                        THEN "partial_halo" ELSE "non_halo"
                  /\ event.magnitude =
                        IF first.velocity < 1000 THEN first.velocity ELSE 1000

\* A group of two rows whose second row has the higher velocity: the event
\* carries the velocity of the first.
C27_Witness ==
    /\ call.op = "detect_cme_events"
    /\ ~is_trained
    /\ ret.status = "ok"
    /\ ret.groups = <<(<<0, 1>>)>>
    /\ RowAtRank(call.table, 0).velocity = 500
    /\ RowAtRank(call.table, 1).velocity = 501
    /\ ret.events[1].velocity = 500
    /\ ret.events[1].confidence = 8000

\* The row exceeds at least one of the four default rule thresholds.
ExceedsSomeThreshold(row) ==
    \/ row.velocity > DefaultVelocityThreshold
    \/ row.proton_flux > DefaultFluxThreshold
    \/ row.temperature > DefaultTemperatureThreshold
    \/ row.magnetic_field_magnitude > DefaultMagneticFieldThreshold

\* C29: on a trained Detector with the default confidence threshold 0.7, a
\* row whose rule score is 0 is never selected, whatever its ensemble
\* probability in [0, 1]: every selected row has a positive rule score and
\* exceeds at least one rule threshold.
C29_ZeroRuleScoreNeverSelected ==
    (/\ call.op = "detect_cme_events"
     /\ is_trained
     /\ ret.status = "ok"
     /\ Get(thresholds, "confidence_threshold", DefaultConfidenceThreshold)
           = DefaultConfidenceThreshold
     /\ DOMAIN thresholds = {}) =>
        /\ \A k \in 1..Len(ret.selected) :
              /\ ret.rule_scores[ret.selected[k] + 1] > 0
              /\ ExceedsSomeThreshold(RowAtRank(call.table, ret.selected[k]))
        /\ \A g \in 1..Len(ret.groups) : \A k \in 1..Len(ret.groups[g]) :
              ret.rule_scores[ret.groups[g][k] + 1] > 0

\* A row with rule score 0 and ensemble probability 1 scores exactly 0.7 and
\* is left out, while another row of the batch is selected.
C29_Witness ==
    /\ call.op = "detect_cme_events"
    /\ is_trained
    /\ ret.status = "ok"
    /\ DOMAIN thresholds = {}
    /\ Len(ret.selected) > 0
    /\ \E i \in 1..Len(ret.rule_scores) :
          /\ ret.rule_scores[i] = 0
          /\ call.ml[i] = Unit
          /\ ret.scores[i] = DefaultConfidenceThreshold
          /\ \A k \in 1..Len(ret.selected) : ret.selected[k] # i - 1

-----------------------------------------------------------------------------
(* Properties of the ensemble, under SpecPredict *)

\* Every row's contribution is in [0, 1], and a row whose decision score is
\* the smallest of the batch contributes exactly 1.
NormalisedAndInverted(decision, contribution) ==
    /\ Len(contribution) = Len(decision)
    /\ \A i \in 1..Len(decision) :
          /\ contribution[i] >= 0
          /\ contribution[i] <= Unit
          /\ (\A j \in 1..Len(decision) : decision[i] <= decision[j])
                => contribution[i] = Unit
    /\ (\A i, j \in 1..Len(decision) : decision[i] = decision[j])
          => \A i \in 1..Len(decision) : contribution[i] = Unit

\* C30: in predict_cme_probability each novelty detector's contribution is
\* in [0, 1] for every row, the row with the smallest decision score of the
\* batch contributes exactly 1, and a batch whose rows all have the same
\* decision score (a one-row batch in particular) contributes 1 on every
\* row; the ensemble is in [0, 1], and at least 2/3 on a one-row batch.
C30_NoveltyContributionsAndEnsembleBounds ==
    (/\ call.op = "predict_cme_probability"
     /\ ret.status = "ok") =>
        /\ Len(ret.predictions) = 3
        /\ NormalisedAndInverted(call.decision_if, ret.predictions[1])
        /\ NormalisedAndInverted(call.decision_svm, ret.predictions[2])
        /\ Len(ret.scores) = Len(call.table.rows)
        /\ \A i \in 1..Len(ret.scores) :
              /\ ret.scores[i] >= 0
              /\ ret.scores[i] <= Unit
        /\ Len(call.table.rows) = 1 =>
              /\ ret.predictions[1][1] = Unit
              /\ ret.predictions[2][1] = Unit
              /\ 3 * ret.scores[1] + 2 >= 2 * Unit
              /\ ret.predictions[1][1] + ret.predictions[2][1]
                    + ret.predictions[3][1] >= 2 * Unit

\* A one-row batch the classifier gives probability 0: the ensemble is 2/3.
\* (The integer mean rounds 2/3 down.)
C30_Witness ==
    /\ call.op = "predict_cme_probability"
    /\ ret.status = "ok"
    /\ Len(call.table.rows) = 1
    /\ ret.predictions = <<(<<Unit>>), (<<Unit>>), (<<0>>)>>
    /\ ret.scores = <<(2 * Unit) \div 3>>

====
